---- MODULE Spec2Model ----
(***************************************************************************)
(* Fennec request-processing core: Router (fennec/routing.py),             *)
(* MiddlewareManager (fennec/middleware.py), DependencyInjector            *)
(* (fennec/dependencies.py) and Application.handle_http /                  *)
(* handle_exception (fennec/app.py), with Response.__call__                *)
(* (fennec/request.py).                                                    *)
(*                                                                         *)
(* Strings of the program (paths, templates, parameter names) are          *)
(* sequences of one-character strings.  The character "s" stands for the   *)
(* superscript digit U+00B2, for which str.isdigit() is True while int()   *)
(* raises ValueError.                                                      *)
(***************************************************************************)
EXTENDS Integers, Sequences, FiniteSets, TLC

VARIABLES
    routes,          \* Router.routes: the registered Route records, in order
    rq_path,         \* path of the last Router.match call (router harness)
    rq_method,       \* method of the last Router.match call
    route_match,     \* what that call produced (RouteMatch / None / raised)
    pc,              \* position: "setup", then "matched" (router harness)
    overrides,       \* DependencyInjector.overrides: parameter name -> provider
    inj,             \* injector harness: one inject call, its inputs and result
    middleware_stack,    \* MiddlewareManager.middleware_stack, in order of add
    exception_handlers,  \* Application.exception_handlers: classes, in dict order
    index,           \* build_chain's argument in the call being made
    frames,          \* middleware suspended in "await call_next(request)"
    ret,             \* the value being returned, or the exception propagating
    response,        \* handle_http's local variable response
    sent,            \* the ASGI messages given to send, in order
    trace,           \* what ran while the request was handled, in order
    escaped,         \* the exception that left handle_http, None when none did
    provider_calls,  \* the dependency providers resolve has called, in order
    handled_by,      \* class of the registered exception handler invoked, "" if none
    handed,          \* per build_chain call: the request call_next was given and the
                     \* request the link was invoked with
    tasks,           \* concurrent handle_http calls: the local variables of each
    channels,        \* per call, the messages given to its own send callable
    router,          \* a Router made apart from the application's: prefix, routes
    included,        \* the prefix arguments of the include_router calls made
    source,          \* WriteThrough: what the writer/deleter callables keep for the key
    cache,           \* WriteThrough: what the cache backend holds for the key
    wt_calls,        \* WriteThrough: the set/delete calls in progress, per caller
    wt_clean,        \* no call has failed or overlapped another so far
    gens,            \* the generator objects resolve has made, one per inject call
    gen_pc,          \* position of the inject call that uses a generator provider
    gen_log,         \* provider setup, handler and teardown events, in order
    rl_requests,     \* RateLimitMiddleware.requests: client key -> list of timestamps
    now,             \* what time.time() returns
    rl_tasks,        \* the calls of RateLimitMiddleware.__call__ in progress or ended
    forwarded,       \* per client key and time, how many calls went on to call_next
    redis,           \* Redis queue backend and the worker loops consuming one queue
    wbehind,         \* WriteBehind: cache, dirty keys, flush and set calls in progress
    wsock,           \* handle_websocket: one connection, what was sent, what escaped
    wsm,             \* WebSocketManager: connections, rooms, a broadcast in progress
    cors,            \* one request through an application with CORSMiddleware
    jwt,             \* EnhancedJWTHandler: blacklist and the last operation's outcome
    mig,             \* MigrationManager: the applied table and the last call's outcome
    rbody            \* Request.body(): _body, the transport stream, receive calls

routerVars == <<routes, rq_path, rq_method, route_match>>
setupVars == <<middleware_stack, exception_handlers, overrides>>
chainVars == <<index, frames, ret>>
outVars == <<response, sent, escaped>>
calledVars == <<provider_calls, handled_by>>
coreVars == <<routes, rq_path, rq_method, route_match, pc, overrides, inj, middleware_stack,
              exception_handlers, index, frames, ret, response, sent, trace, escaped,
              provider_calls, handled_by>>
concVars == <<tasks, channels>>
includeVars == <<router, included>>
cacheVars == <<source, cache, wt_calls, wt_clean>>
genVars == <<gens, gen_pc, gen_log>>
rateVars == <<rl_requests, now, rl_tasks, forwarded>>
laterVars == <<redis, wbehind, wsock, wsm, cors, jwt, mig, rbody>>
earlierVars == <<concVars, includeVars, cacheVars, genVars, rateVars>>
harnessVars == <<earlierVars, laterVars>>
othersConc == <<coreVars, handed, includeVars, cacheVars, genVars, rateVars, laterVars>>
othersInclude == <<handed, concVars, cacheVars, genVars, rateVars, laterVars>>
othersCache == <<coreVars, handed, concVars, includeVars, genVars, rateVars, laterVars>>
othersGen == <<coreVars, handed, concVars, includeVars, cacheVars, rateVars, laterVars>>
othersRate == <<coreVars, handed, concVars, includeVars, cacheVars, genVars, laterVars>>
othersRedis == <<coreVars, handed, earlierVars, wbehind, wsock, wsm, cors, jwt, mig, rbody>>
othersWbehind == <<coreVars, handed, earlierVars, redis, wsock, wsm, cors, jwt, mig, rbody>>
othersWsock == <<coreVars, handed, earlierVars, redis, wbehind, wsm, cors, jwt, mig, rbody>>
othersWsm == <<coreVars, handed, earlierVars, redis, wbehind, wsock, cors, jwt, mig, rbody>>
othersCors == <<coreVars, handed, earlierVars, redis, wbehind, wsock, wsm, jwt, mig, rbody>>
othersJwt == <<coreVars, handed, earlierVars, redis, wbehind, wsock, wsm, cors, mig, rbody>>
othersMig == <<coreVars, handed, earlierVars, redis, wbehind, wsock, wsm, cors, jwt, rbody>>
othersRbody == <<coreVars, handed, earlierVars, redis, wbehind, wsock, wsm, cors, jwt, mig>>
extVars == <<handed, harnessVars>>
vars == <<coreVars, extVars>>

(***************************************************************************)
(* Bounds                                                                  *)
(***************************************************************************)
MaxRoutes == 2
MaxPathLen == 4
MaxMiddleware == 3
MaxExceptionHandlers == 2
MaxResolves == 2
MaxTime == 2

(***************************************************************************)
(* Small helpers                                                           *)
(***************************************************************************)
Range(f) == {f[i] : i \in DOMAIN f}

RECURSIVE SeqsUpTo(_, _)
SeqsUpTo(S, n) ==
    IF n = 0 THEN {<<>>}
    ELSE LET shorter == SeqsUpTo(S, n - 1)
         IN  shorter \cup {Append(q, c) : q \in {x \in shorter : Len(x) = n - 1}, c \in S}

(***************************************************************************)
(* Characters                                                              *)
(***************************************************************************)
Slash == "/"
LBrace == "{"
RBrace == "}"
AsciiDigits == {"4"}
\* str.isdigit() accepts every character with Numeric_Type Digit or Decimal
IsDigitChars == AsciiDigits \cup {"s"}
IdentStartChars == {"u", "x", "y"}
PathChars == {Slash, "u", "4", "s"}

Methods == {"GET", "POST"}

Upper(m) == IF m = "get" THEN "GET" ELSE IF m = "post" THEN "POST" ELSE m

(***************************************************************************)
(* Router.add_route: template -> compiled pattern                          *)
(***************************************************************************)
\* index of the first "}" of tpl at or after position i, 0 when none
RECURSIVE FindClose(_, _)
FindClose(tpl, i) ==
    IF i > Len(tpl) THEN 0
    ELSE IF tpl[i] = RBrace THEN i
    ELSE FindClose(tpl, i + 1)

\* param_pattern.finditer(full_path): the non-overlapping leftmost matches of
\* \{([^}]+)\}, as the sequence of group(1) values
RECURSIVE FindParams(_, _)
FindParams(tpl, i) ==
    IF i > Len(tpl) THEN <<>>
    ELSE IF tpl[i] # LBrace THEN FindParams(tpl, i + 1)
    ELSE LET j == FindClose(tpl, i + 1)
         IN  IF j = 0 THEN <<>>
             ELSE IF j = i + 1 THEN FindParams(tpl, i + 1)
             ELSE <<SubSeq(tpl, i + 1, j - 1)>> \o FindParams(tpl, j + 1)

\* does tpl carry the text "{name}" starting at position i
HoldsAt(tpl, i, name) ==
    /\ i + Len(name) + 1 <= Len(tpl)
    /\ tpl[i] = LBrace
    /\ SubSeq(tpl, i + 1, i + Len(name)) = name
    /\ tpl[i + Len(name) + 1] = RBrace

\* pattern_str after every str.replace("{name}", "(?P<name>[^/]+)"): a sequence
\* of tokens, a literal character or a named group
RECURSIVE Tokens(_, _, _)
Tokens(tpl, i, names) ==
    IF i > Len(tpl) THEN <<>>
    ELSE IF \E k \in DOMAIN names : HoldsAt(tpl, i, names[k])
         THEN LET k == CHOOSE k \in DOMAIN names : HoldsAt(tpl, i, names[k])
              IN  <<[t |-> "group", c |-> "", name |-> names[k]]>>
                    \o Tokens(tpl, i + Len(names[k]) + 2, names)
         ELSE <<[t |-> "lit", c |-> tpl[i], name |-> <<>>]>> \o Tokens(tpl, i + 1, names)

\* a group name re.compile accepts: an identifier
IsIdentifier(name) ==
    /\ Len(name) >= 1
    /\ name[1] \in IdentStartChars
    /\ \A i \in DOMAIN name : name[i] \in IdentStartChars \cup AsciiDigits

\* re.compile(f"^{pattern_str}$"): raises re.error on a bad or repeated group name
CompileOk(names) ==
    /\ \A i \in DOMAIN names : IsIdentifier(names[i])
    /\ \A i, j \in DOMAIN names : names[i] = names[j] => i = j

Route(path, handler, methods) ==
    LET names == FindParams(path, 1)
    IN  [path        |-> path,
         handler     |-> handler,
         methods     |-> {Upper(m) : m \in methods},
         pattern     |-> Tokens(path, 1, names),
         param_names |-> names]

(***************************************************************************)
(* route.pattern.match(path): Python's backtracking matcher, greedy [^/]+  *)
(***************************************************************************)
NoGroups == [ok |-> FALSE, groups |-> <<>>]

\* length of the longest run of non-"/" characters of s starting at si
RECURSIVE RunLen(_, _)
RunLen(s, si) ==
    IF si > Len(s) \/ s[si] = Slash THEN 0 ELSE 1 + RunLen(s, si + 1)

RECURSIVE ReMatch(_, _, _, _)
RECURSIVE TryLen(_, _, _, _, _)
\* groups is a sequence of <<name, text>> pairs, in pattern order
ReMatch(toks, ti, s, si) ==
    IF ti > Len(toks)
    THEN IF si > Len(s) THEN [ok |-> TRUE, groups |-> <<>>] ELSE NoGroups
    ELSE IF toks[ti].t = "lit"
         THEN IF si <= Len(s) /\ s[si] = toks[ti].c
              THEN ReMatch(toks, ti + 1, s, si + 1)
              ELSE NoGroups
         ELSE TryLen(toks, ti, s, si, RunLen(s, si))

TryLen(toks, ti, s, si, n) ==
    IF n < 1 THEN NoGroups
    ELSE LET rest == ReMatch(toks, ti + 1, s, si + n)
         IN  IF rest.ok
             THEN [ok |-> TRUE,
                   groups |-> <<<<toks[ti].name, SubSeq(s, si, si + n - 1)>>>> \o rest.groups]
             ELSE TryLen(toks, ti, s, si, n - 1)

PatternMatch(pattern, path) == ReMatch(pattern, 1, path, 1)

(***************************************************************************)
(* Router.match                                                            *)
(***************************************************************************)
\* str.isdigit(): non-empty and every character a digit character
IsDigit(text) == Len(text) >= 1 /\ \A i \in DOMAIN text : text[i] \in IsDigitChars

\* int(text) succeeds on the digit strings made of ASCII digits only
IntParses(text) == \A i \in DOMAIN text : text[i] \in AsciiDigits

DigitVal(c) == IF c = "4" THEN 4 ELSE 0

RECURSIVE IntOf(_)
IntOf(text) ==
    IF Len(text) = 0 THEN 0
    ELSE 10 * IntOf(SubSeq(text, 1, Len(text) - 1)) + DigitVal(text[Len(text)])

StrVal(text) == [t |-> "str", s |-> text, n |-> 0]
IntVal(k) == [t |-> "int", s |-> <<>>, n |-> k]

\* match.groupdict(): name -> text
GroupDict(groups) ==
    [name \in {groups[i][1] : i \in DOMAIN groups} |->
        LET i == CHOOSE i \in DOMAIN groups : groups[i][1] = name IN groups[i][2]]

MatchNone == [kind |-> "none", handler |-> "", path_params |-> <<>>, exc |-> ""]
MatchRaise(e) == [kind |-> "raise", handler |-> "", path_params |-> <<>>, exc |-> e]
RouteMatch(handler, params) ==
    [kind |-> "match", handler |-> handler, path_params |-> params, exc |-> ""]

\* lines 102-112: groupdict, numeric conversion, RouteMatch
Extract(route, groups) ==
    LET gd == GroupDict(groups)
    IN  IF \E k \in DOMAIN gd : IsDigit(gd[k]) /\ ~IntParses(gd[k])
        THEN MatchRaise("ValueError")
        ELSE RouteMatch(route.handler,
                 [k \in DOMAIN gd |->
                     IF IsDigit(gd[k]) THEN IntVal(IntOf(gd[k])) ELSE StrVal(gd[k])])

\* a route loop that leaves out the method check
RECURSIVE MatchFromAnyMethod(_, _, _, _)
MatchFromAnyMethod(rs, i, path, method) ==
    IF i > Len(rs) THEN MatchNone
    ELSE LET m == ReMatch(rs[i].pattern, 1, path, 1)
         IN  IF m.ok THEN Extract(rs[i], m.groups)
             ELSE MatchFromAnyMethod(rs, i + 1, path, method)

\* the route loop of lines 93-114, from index i on
RECURSIVE MatchFrom(_, _, _, _)
MatchFrom(rs, i, path, method) ==
    IF i > Len(rs) THEN MatchNone
    ELSE IF method \notin rs[i].methods THEN MatchFrom(rs, i + 1, path, method)
    ELSE LET m == PatternMatch(rs[i].pattern, path)
         IN  IF m.ok THEN Extract(rs[i], m.groups)
             ELSE MatchFrom(rs, i + 1, path, method)

Match(rs, path, method) == MatchFrom(rs, 1, path, Upper(method))

(***************************************************************************)
(* Values: what handlers, providers and middleware pass around             *)
(***************************************************************************)
\* one shape for every Python object the model passes: a Response, a bare dict,
\* None, an exception
Obj(t, status_code, status, message, data, headers, serialisable, cls) ==
    [t |-> t, status_code |-> status_code, status |-> status, message |-> message,
     data |-> data, headers |-> headers, serialisable |-> serialisable, cls |-> cls]

NoData == <<>>
NoHeaders == <<>>
PyNone == Obj("None", 0, "", "", NoData, NoHeaders, TRUE, "")
Dict(data, serialisable) == Obj("dict", 0, "", "", data, NoHeaders, serialisable, "")

\* Response.__init__ by way of JSONResponse.__init__: the envelope
\* {"status", "data", "message"} and the content-type header
JSONResponse(data, message, status, status_code, serialisable) ==
    Obj("Response", status_code, status, message, data,
        [h \in {"content-type"} |-> "application/json"], serialisable, "")

\* an exception object; HTTPException carries status_code, message and details
Exc(cls, status_code, message, details_serialisable) ==
    Obj("exc", status_code, "", message, NoData, NoHeaders, details_serialisable, cls)

HTTPException(status_code, message, details_serialisable) ==
    Exc("HTTPException", status_code, message, details_serialisable)

\* the classes above cls in its method resolution order, cls included
Mro(cls) ==
    CASE cls \in {"NotFoundException", "UnauthorizedException", "ValidationException"}
             -> {cls, "HTTPException", "Exception"}
      [] cls = "Exception" -> {"Exception"}
      [] OTHER -> {cls, "Exception"}

IsInstance(exc, cls) == cls \in Mro(exc.cls)

(***************************************************************************)
(* DependencyInjector                                                      *)
(***************************************************************************)
NameRequest == <<"request">>
NameSelf == <<"self">>

\* a parameter of a handler signature: default is "empty" (no default),
\* "plain" (an ordinary default) or "marker" (Depends(dep))
Param(name, default, dep) == [name |-> name, default |-> default, dep |-> dep]

\* inspect.signature(func).parameters of the handlers of the model
Signature(h) ==
    CASE h = "get_user"   -> <<Param(NameRequest, "empty", ""), Param(<<"x">>, "empty", ""),
                               Param(<<"db">>, "marker", "get_db")>>
      [] h = "list_items" -> <<Param(<<"db">>, "marker", "get_db")>>
      [] h = "by_x"       -> <<Param(<<"x">>, "marker", "get_x"), Param(<<"q">>, "plain", "")>>
      [] h = "strict"     -> <<Param(NameRequest, "empty", ""), Param(<<"y">>, "empty", "")>>
      [] h = "from_ctx"   -> <<Param(NameRequest, "marker", "get_db")>>
      [] OTHER            -> <<Param(NameRequest, "empty", "")>>

ParamNames(h) == {Signature(h)[i].name : i \in DOMAIN Signature(h)}

\* values bound to parameters
ObjVal(tag, name) == [t |-> tag, s |-> <<name>>, n |-> 0]
RequestObj == ObjVal("request", "req")
Provided(dep) == ObjVal("provided", dep)
DefaultOf(p) == IF p.default = "marker" THEN ObjVal("marker", p.dep) ELSE ObjVal("default", "")

\* dict with key k set to v (d[k] = v)
DictSet(d, k, v) == [x \in DOMAIN d \cup {k} |-> IF x = k THEN v ELSE d[x]]

\* a merge in which the first dict's items win
DictMergeFirstWins(a, b) == [x \in DOMAIN a \cup DOMAIN b |-> IF x \in DOMAIN a THEN a[x] ELSE b[x]]

\* {**a, **b}: a's items, then b's items written over them
DictMerge(a, b) == [x \in DOMAIN a \cup DOMAIN b |-> IF x \in DOMAIN b THEN b[x] ELSE a[x]]

Resolved(ok, resolved, exc, called) ==
    [ok |-> ok, resolved |-> resolved, exc |-> exc, called |-> called]

\* the exception a provider raises under outcome o
ProviderExc(o) ==
    IF o = "unauthorized" THEN Exc("UnauthorizedException", 401, "Unauthorized", TRUE)
    ELSE Exc("ValueError", 0, "provider failed", TRUE)

\* a lookup that never consults the overrides
DependencyFuncDeclared(p, ovr) == p.dep

\* lines 60-64: the provider resolve calls for marker parameter p, the
\* override registered under the parameter's name when there is one
DependencyFunc(p, ovr) == IF p.name \in DOMAIN ovr THEN ovr[p.name] ELSE p.dep

\* DependencyInjector.resolve: the loop over sig.parameters from parameter i
\* on; env gives the outcome of calling each provider ("ok" or an error)
RECURSIVE ResolveFrom(_, _, _, _, _)
ResolveFrom(sig, i, ovr, env, acc) ==
    IF i > Len(sig) THEN acc
    ELSE LET p == sig[i]
         IN  IF p.name \in {NameSelf, NameRequest} THEN ResolveFrom(sig, i + 1, ovr, env, acc)
             ELSE IF p.default # "marker" THEN ResolveFrom(sig, i + 1, ovr, env, acc)
             ELSE LET dependency_func == DependencyFunc(p, ovr)
                      called == Append(acc.called, dependency_func)
                  IN  IF env[dependency_func] = "ok"
                      THEN ResolveFrom(sig, i + 1, ovr, env,
                               Resolved(TRUE,
                                        DictSet(acc.resolved, p.name, Provided(dependency_func)),
                                        acc.exc, called))
                      ELSE Resolved(FALSE, <<>>, ProviderExc(env[dependency_func]), called)

Resolve(h, ovr, env) == ResolveFrom(Signature(h), 1, ovr, env, Resolved(TRUE, <<>>, PyNone, <<>>))

\* lines 104-108: keep the keys of all_kwargs that are parameters of func
RECURSIVE FilterFrom(_, _, _, _)
FilterFrom(sig, i, all_kwargs, acc) ==
    IF i > Len(sig) THEN acc
    ELSE IF sig[i].name \in DOMAIN all_kwargs
         THEN FilterFrom(sig, i + 1, all_kwargs,
                         DictSet(acc, sig[i].name, all_kwargs[sig[i].name]))
         ELSE FilterFrom(sig, i + 1, all_kwargs, acc)

\* a filter that lets every key through
FilterKeepsAll(h, all_kwargs) == all_kwargs

FilterKwargs(h, all_kwargs) == FilterFrom(Signature(h), 1, all_kwargs, <<>>)

\* what the body of a handler does with its bound arguments
RunBody(body, args) ==
    CASE body = "echo"        -> Dict(args, TRUE)
      [] body = "json"        -> JSONResponse(args, "", "success", 200, TRUE)
      [] body = "none"        -> PyNone
      [] body = "not_found"   -> HTTPException(404, "not found", TRUE)
      [] body = "teapot"      -> HTTPException(418, "teapot", FALSE)
      [] body = "value_error" -> Exc("ValueError", 0, "boom", TRUE)
      [] OTHER                -> Exc("KeyError", 0, "secret", TRUE)

\* func(**kwargs): Python's binding of keyword arguments, then the body
Call(h, kwargs, body) ==
    LET sig == Signature(h)
    IN  IF \E k \in DOMAIN kwargs : k \notin ParamNames(h)
        THEN Exc("TypeError", 0, "unexpected keyword argument", TRUE)
        ELSE IF \E i \in DOMAIN sig : sig[i].default = "empty" /\ sig[i].name \notin DOMAIN kwargs
        THEN Exc("TypeError", 0, "missing required argument", TRUE)
        ELSE RunBody(body,
                 [n \in ParamNames(h) |->
                     IF n \in DOMAIN kwargs THEN kwargs[n]
                     ELSE DefaultOf(sig[CHOOSE i \in DOMAIN sig : sig[i].name = n])])

\* an inject that calls the handler with whatever was resolved, provider
\* failure or not
InjectCallsHandlerAnyway(h, kwargs, ovr, env, body) ==
    Call(h, FilterKwargs(h, DictMerge(Resolve(h, ovr, env).resolved, kwargs)), body)

\* DependencyInjector.inject(func, **kwargs)
Inject(h, kwargs, ovr, env, body) ==
    LET dependencies == Resolve(h, ovr, env)
    IN  IF ~dependencies.ok THEN dependencies.exc
        ELSE LET all_kwargs == DictMerge(dependencies.resolved, kwargs)
                 filtered_kwargs == FilterKwargs(h, all_kwargs)
             IN  Call(h, filtered_kwargs, body)

\* the providers one call of inject calls, each with the outcome of the call
ProviderCalls(h, ovr, env) ==
    LET called == Resolve(h, ovr, env).called
    IN  [i \in DOMAIN called |-> [provider |-> called[i], outcome |-> env[called[i]]]]

\* the keyword arguments inject calls func with (none when resolve raised)
Passed(h, kwargs, ovr, env) ==
    LET dependencies == Resolve(h, ovr, env)
    IN  IF ~dependencies.ok THEN <<>>
        ELSE FilterKwargs(h, DictMerge(dependencies.resolved, kwargs))

(***************************************************************************)
(* Middleware: the components a chain is made of                           *)
(***************************************************************************)
\* "pass"       the base class Middleware: await call_next, return the response
\* "hdr"        await call_next, turn a bare dict into a JSONResponse, set one
\*              header on the response, return it
\* "raise_pre"  raises HTTPException(403) without calling call_next
\* "raise_post" awaits call_next, then raises
\* "catch"      awaits call_next inside try/except Exception and returns a
\*              response of its own when it raised
\* "swap"       awaits call_next(other), other being a Request object it made
\* "twice"      awaits call_next, then awaits call_next again and returns
\*              what the second call returned
\* "short"      returns a response of its own without calling call_next
MiddlewareKinds == {"pass", "hdr", "raise_pre", "raise_post", "catch"}

CallsNext(kind) == kind \notin {"raise_pre", "short"}

\* does the middleware await call_next a second time once the first returned
CallsNextAgain(kind) == kind = "twice"

\* the header the "hdr" middleware registered at position i (from 0) sets
HeaderOf(i) == IF i = 0 THEN "X-A" ELSE IF i = 1 THEN "X-B" ELSE "X-C"

Event(e, i) == [e |-> e, i |-> i]

\* what a middleware raises before calling call_next
RaisedBefore(kind) == HTTPException(403, "forbidden", TRUE)

\* what a middleware that does not call call_next finishes with
WithoutNext(kind) ==
    IF kind = "short"
    THEN JSONResponse(NoData, "short circuit", "success", 200, TRUE)
    ELSE RaisedBefore(kind)

\* the Request object a "swap" middleware makes and gives to call_next
SubstituteObj == ObjVal("request", "substitute")

\* the request the link entered next is invoked with, when the chain was
\* started for request and the caller gave given to call_next: call_next does
\* not use its argument, build_chain passes the request of execute
ChainRequest(request, given) == request

\* the argument of the call_next (or of execute's build_chain(0)) that is
\* entering a link: fs are the suspended middleware, hs the links entered
GivenToNext(fs, hs) ==
    IF fs = <<>> THEN RequestObj
    ELSE IF fs[Len(fs)].kind = "swap" THEN SubstituteObj
    ELSE LET own == {j \in DOMAIN hs : hs[j].link = fs[Len(fs)].index}
         IN  hs[CHOOSE j \in own : \A k \in own : k <= j].got

Handed(link, fs, hs) ==
    [link |-> link, given |-> GivenToNext(fs, hs),
     got |-> ChainRequest(RequestObj, GivenToNext(fs, hs))]

\* a chain in which no middleware's except clause catches
ResumeNeverCatches(kind, i, r) ==
    IF r.t = "exc" THEN r
    ELSE CASE kind = "hdr" ->
                 LET resp == IF r.t = "dict"
                             THEN JSONResponse(r.data, "", "success", 200, r.serialisable)
                             ELSE r
                 IN  IF resp.t # "Response"
                     THEN Exc("AttributeError", 0, "no attribute headers", TRUE)
                     ELSE [resp EXCEPT !.headers = DictSet(resp.headers, HeaderOf(i), "1")]
           [] kind = "raise_post" -> Exc("RuntimeError", 0, "post failed", TRUE)
           [] OTHER -> r

\* the value or exception with which middleware kind at position i finishes,
\* once "await call_next(request)" has produced r (a value, or an exception)
Resume(kind, i, r) ==
    IF r.t = "exc"
    THEN IF kind = "catch"
         THEN JSONResponse(NoData, "handled by middleware", "error", 502, TRUE)
         ELSE r
    ELSE CASE kind = "hdr" ->
                 LET resp == IF r.t = "dict"
                             THEN JSONResponse(r.data, "", "success", 200, r.serialisable)
                             ELSE r
                 IN  IF resp.t # "Response"
                     THEN Exc("AttributeError", 0, "no attribute headers", TRUE)
                     ELSE [resp EXCEPT !.headers = DictSet(resp.headers, HeaderOf(i), "1")]
           [] kind = "raise_post" -> Exc("RuntimeError", 0, "post failed", TRUE)
           [] OTHER -> r

\* a call_next that runs the same link again
NextIndexSame(i) == i

\* a call_next that skips the next link of the chain
NextIndexSkipsOne(i) == i + 2

\* build_chain(index + 1), the call that call_next makes
NextIndex(i) == i + 1

(***************************************************************************)
(* Application.handle_exception                                            *)
(***************************************************************************)
\* the loop over exception_handlers.items(): the position of the first class
\* the exception is an instance of, 0 when there is none
RECURSIVE FirstHandlerFrom(_, _, _)
FirstHandlerFrom(handlers, i, exc) ==
    IF i > Len(handlers) THEN 0
    ELSE IF IsInstance(exc, handlers[i]) THEN i
    ELSE FirstHandlerFrom(handlers, i + 1, exc)

FirstHandler(handlers, exc) == FirstHandlerFrom(handlers, 1, exc)

\* the class under which the handler that the loop returns from is registered
HandledBy(handlers, exc) ==
    IF FirstHandler(handlers, exc) = 0 THEN "" ELSE handlers[FirstHandler(handlers, exc)]

GenericError == JSONResponse(PyNone.data, "Internal Server Error", "error", 500, TRUE)

\* a translator that answers every exception with the generic 500
DefaultResponseAlwaysGeneric(exc) == GenericError

\* a translator that puts the error's own message into the 500
DefaultResponseLeaksDetail(exc) ==
    IF IsInstance(exc, "HTTPException")
    THEN JSONResponse(NoData, exc.message, "error", exc.status_code, exc.serialisable)
    ELSE JSONResponse(PyNone.data, exc.message, "error", 500, TRUE)

\* lines 362-384: the response when no registered handler applies
DefaultResponse(exc) ==
    IF IsInstance(exc, "HTTPException")
    THEN JSONResponse(NoData, exc.message, "error", exc.status_code, exc.serialisable)
    ELSE GenericError

\* what a registered exception handler gives back under outcome o
CustomOutcome(o, exc) ==
    CASE o = "response" -> JSONResponse(NoData, exc.message, "error", 400, TRUE)
      [] o = "none"     -> PyNone
      [] OTHER          -> Exc("RuntimeError", 0, "handler failed", TRUE)

CustomOutcomes == {"response", "none", "raise"}

\* handle_exception(request, exc): what it returns, or the exception it raises
HandleExceptionResult(handlers, exc, o) ==
    IF FirstHandler(handlers, exc) = 0 THEN DefaultResponse(exc) ELSE CustomOutcome(o, exc)

(***************************************************************************)
(* Response.__call__ and handle_http's own steps                           *)
(***************************************************************************)
NotFound == JSONResponse(PyNone.data, "Not Found", "error", 404, TRUE)

Message(type, status, headers, content) ==
    [type |-> type, status |-> status, headers |-> headers, content |-> content]

StartMessage(resp) == Message("http.response.start", resp.status_code, resp.headers, <<>>)

\* json.dumps of the envelope {"status", "data", "message"}
BodyMessage(resp) ==
    Message("http.response.body", 0, NoHeaders,
            [status |-> resp.status, data |-> resp.data, message |-> resp.message])

\* inject(route_match.handler, request=req, **req.path_params): the keyword
\* arguments of the call
InjectKwargs(path_params) == DictSet(path_params, NameRequest, RequestObj)

ProviderNames == {"get_db", "get_x"}
ProviderOutcomes == {"ok", "unauthorized", "error"}
Bodies == {"echo", "json", "none", "not_found", "teapot", "value_error", "key_error"}

\* did inject reach the call of the handler's body
BodyRuns(h, kwargs, ovr, env) ==
    /\ Resolve(h, ovr, env).ok
    /\ Call(h, FilterKwargs(h, DictMerge(Resolve(h, ovr, env).resolved, kwargs)), "none") = PyNone

(***************************************************************************)
(* The application after Application(docs_enabled=False)                   *)
(***************************************************************************)
NoInject == [stage |-> "off", h |-> "", kwargs |-> <<>>, env |-> <<>>, body |-> "",
             passed |-> <<>>, out |-> PyNone]

\* two handle_http calls in progress at the same time
ReqIds == {1, 2}

\* RateLimitMiddleware(max_requests, window_seconds)
max_requests == 2
window_seconds == 2
ClientKeys == {"a", "b"}
\* requests passing through one RateLimitMiddleware at the same time
RateTasks == {1, 2}

\* two callers of one WriteThrough object, for one key
Callers == {1, 2}

\* the locals of a handle_http call that has not begun
IdleTask ==
    [pc |-> "idle", request |-> [obj |-> ObjVal("none", ""), path |-> <<>>],
     route_match |-> MatchNone, index |-> 0, frames |-> <<>>, ret |-> PyNone,
     response |-> PyNone, began |-> <<>>, ran |-> <<>>, called |-> <<>>]

max_retries == 1
retry_delay == 1
MaxLoopTime == 3
WorkerLoops == {1, 2}
TaskNames == {"t", "u"}
Registered == {"t"}
NoMessage == [task |-> "", retries |-> 0]
IdleLoop == [pc |-> "scan", batch |-> <<>>, message |-> NoMessage]

InitRedis ==
    [queue |-> <<>>, delayed |-> {}, time |-> 0,
     loops |-> [l \in WorkerLoops |-> IdleLoop],
     published |-> {}, executed |-> [n \in TaskNames |-> 0],
     zadded |-> [r \in 0..(max_retries + 1) |-> 0],
     moved |-> [r \in 0..(max_retries + 1) |-> 0]]

MaxSets == 2
CacheKeys == {"k1", "k2"}
NoneOfKeys == [k \in CacheKeys |-> 0]

\* Values are 1, 2, ... in the order the set calls write them; 0 is None.
InitWbehind ==
    [cache |-> NoneOfKeys, _dirty_keys |-> {}, written |-> NoneOfKeys,
     flush |-> [pc |-> "idle", todo |-> {}, size |-> 0, dirty_data |-> NoneOfKeys],
     call |-> [pc |-> "idle", key |-> ""],
     sets |-> 0, overlapped |-> FALSE, raised |-> FALSE]
MaxWsSends == 3
WsPaths == {"/ws", "/chat", "/none"}
WsRoutes == {"/ws", "/chat"}

InitWsock ==
    [pc |-> "idle", path |-> "", client_state |-> "", sent |-> <<>>,
     handler_ran |-> FALSE, raised |-> FALSE, state_at_raise |-> "",
     escaped |-> FALSE]
WsClients == {"a", "b"}
WsRooms == {"r1", "r2"}
IdleBroadcast ==
    [pc |-> "idle", room |-> "", exclude |-> "", todo |-> {}, size |-> 0,
     stayed |-> {}, delivered |-> {}, twice |-> FALSE, raised |-> FALSE]

\* rooms is a function from the keys of the dict to the sets of client ids.
InitWsm ==
    [connections |-> {}, rooms |-> <<>>, last |-> [op |-> "", client |-> ""],
     was_member |-> FALSE, bc |-> IdleBroadcast]
InitCors ==
    [pc |-> "setup", routes |-> <<>>, allow_origins |-> {}, method |-> "",
     path |-> <<>>, origin |-> "", route_match |-> MatchNone, response |-> PyNone,
     ret |-> PyNone, handler_invoked |-> FALSE, sent |-> <<>>]
MaxJwtTime == 1
MaxTokens == 2
NoToken == [type |-> "", exp |-> 0, sig |-> ""]

\* A token is its payload's type and exp claims and whether its signature is
\* the one _sign gives for them.  revoked is every token ever passed to
\* revoke_token.
InitJwt ==
    [blacklist |-> {}, time |-> 0, issued |-> {}, revoked |-> {},
     last |-> [op |-> "", token |-> NoToken, raised |-> "", out |-> NoToken]]
MaxMigrations == 3
MaxSteps == 2
NoCall == [op |-> "", steps |-> 0, count |-> 0, raised |-> FALSE, done |-> <<>>,
           before |-> {}]

\* applied is the migrations table; last and prev are the last two calls, with
\* the versions each applied or reverted, in order.
InitMig == [applied |-> {}, last |-> NoCall, prev |-> NoCall]
MaxMessages == 4
MaxReceives == 4

\* _body is None until set; bytes are the sequence of the chunks joined.
\* stream is what the transport still has to give; once it is used up the
\* client is gone and receive gives http.disconnect each time.
InitRbody ==
    [pc |-> "setup", stream |-> <<>>, body_set |-> FALSE, _body |-> <<>>,
     body_parts |-> <<>>, returned |-> <<>>, calls |-> 0, receive_calls |-> 0,
     cached_ok |-> TRUE, spin |-> FALSE]

InitExt ==
    /\ handed = <<>>
    /\ tasks = [r \in ReqIds |-> IdleTask]
    /\ channels = [r \in ReqIds |-> <<>>]
    /\ router = [made |-> FALSE, prefix |-> <<>>, routes |-> <<>>]
    /\ included = <<>>
    /\ source = "None"
    /\ cache = "None"
    /\ wt_calls = [c \in Callers |-> [pc |-> "idle", op |-> "", value |-> "None"]]
    /\ wt_clean = TRUE
    /\ gens = <<>>
    /\ gen_pc = "idle"
    /\ gen_log = <<>>
    /\ rl_requests = <<>>
    /\ now = 0
    /\ rl_tasks = [t \in RateTasks |-> [pc |-> "idle", client |-> "", status |-> 0,
                                        recorded |-> FALSE, seen |-> 0]]
    /\ forwarded = [c \in ClientKeys |-> [t \in 0..MaxTime |-> 0]]
    /\ redis = InitRedis
    /\ wbehind = InitWbehind
    /\ wsock = InitWsock
    /\ wsm = InitWsm
    /\ cors = InitCors
    /\ jwt = InitJwt
    /\ mig = InitMig
    /\ rbody = InitRbody

InitCore ==
    /\ InitExt
    /\ routes = <<>>
    /\ rq_path = <<>>
    /\ rq_method = ""
    /\ route_match = MatchNone
    /\ pc = "setup"
    /\ overrides = <<>>
    /\ middleware_stack = <<>>
    /\ exception_handlers = <<>>
    /\ index = 0
    /\ frames = <<>>
    /\ ret = PyNone
    /\ response = PyNone
    /\ sent = <<>>
    /\ trace = <<>>
    /\ escaped = PyNone
    /\ provider_calls = <<>>
    /\ handled_by = ""

InitApp == InitCore /\ inj = NoInject

(***************************************************************************)
(* Setup: MiddlewareManager.add, Application.exception_handler             *)
(***************************************************************************)
\* Router.add_route(path, handler, methods)
AddRoute(path, handler, methods) ==
    /\ pc = "setup"
    /\ Len(routes) < MaxRoutes
    /\ CompileOk(FindParams(path, 1))
    /\ routes' = Append(routes, Route(path, handler, methods))
    /\ UNCHANGED <<rq_path, rq_method, route_match, pc, inj, trace>>
    /\ UNCHANGED <<setupVars, chainVars, outVars>>
    /\ UNCHANGED calledVars
    /\ UNCHANGED extVars

\* MiddlewareManager.add(middleware)
AddMiddleware(kind) ==
    /\ pc = "setup"
    /\ Len(middleware_stack) < MaxMiddleware
    /\ middleware_stack' = Append(middleware_stack, kind)
    /\ UNCHANGED <<routerVars, pc, overrides, inj, exception_handlers, trace>>
    /\ UNCHANGED <<chainVars, outVars>>
    /\ UNCHANGED calledVars
    /\ UNCHANGED extVars

\* @app.exception_handler(exc_class): self.exception_handlers[exc_class] = func
RegisterExceptionHandler(cls) ==
    /\ pc = "setup"
    /\ cls \notin Range(exception_handlers)
    /\ Len(exception_handlers) < MaxExceptionHandlers
    /\ exception_handlers' = Append(exception_handlers, cls)
    /\ UNCHANGED <<routerVars, pc, overrides, inj, middleware_stack, trace>>
    /\ UNCHANGED <<chainVars, outVars>>
    /\ UNCHANGED calledVars
    /\ UNCHANGED extVars

(***************************************************************************)
(* Application.handle_http, one request                                    *)
(***************************************************************************)
\* request = Request(scope, receive)
Receive(path, method) ==
    /\ pc = "setup"
    /\ rq_path' = path
    /\ rq_method' = method
    /\ pc' = "received"
    /\ UNCHANGED <<routes, route_match, inj, trace, setupVars, chainVars, outVars>>
    /\ UNCHANGED calledVars
    /\ UNCHANGED extVars

\* a dispatcher that runs the chain even when nothing matched
RouteRequestRunsChainAnyway ==
    /\ pc = "received"
    /\ LET m == Match(routes, rq_path, rq_method)
       IN  /\ route_match' = m
           /\ IF m.kind = "raise"
              THEN /\ ret' = Exc(m.exc, 0, "invalid literal for int()", TRUE)
                   /\ pc' = "except"
                   /\ UNCHANGED index
              ELSE /\ index' = 0
                   /\ pc' = "chain_call"
                   /\ UNCHANGED ret
    /\ UNCHANGED <<routes, rq_path, rq_method, inj, trace, setupVars, frames, outVars>>
    /\ UNCHANGED calledVars
    /\ UNCHANGED extVars

\* lines 227-238: route_match = await self.router.match(...), then the 404,
\* or the start of the middleware chain at build_chain(0); an exception of
\* match goes to the except clause
RouteRequest ==
    /\ pc = "received"
    /\ LET m == Match(routes, rq_path, rq_method)
       IN  /\ route_match' = m
           /\ CASE m.kind = "none" ->
                     /\ response' = NotFound
                     /\ pc' = "convert"
                     /\ UNCHANGED <<index, ret>>
                [] m.kind = "raise" ->
                     /\ ret' = Exc(m.exc, 0, "invalid literal for int()", TRUE)
                     /\ pc' = "except"
                     /\ UNCHANGED <<index, response>>
                [] OTHER ->
                     /\ index' = 0
                     /\ pc' = "chain_call"
                     /\ UNCHANGED <<ret, response>>
    /\ UNCHANGED <<routes, rq_path, rq_method, inj, trace, setupVars, frames, sent, escaped>>
    /\ UNCHANGED calledVars
    /\ UNCHANGED extVars

\* a chain that goes on to the next link when a middleware raises
EnterMiddlewareFallsThrough ==
    /\ pc = "chain_call"
    /\ index < Len(middleware_stack)
    /\ LET middleware == middleware_stack[index + 1]
       IN  IF CallsNext(middleware)
           THEN /\ frames' = Append(frames, [index |-> index, kind |-> middleware])
                /\ trace' = Append(trace, Event("pre", index))
           ELSE /\ frames' = frames
                /\ trace' = trace \o <<Event("pre", index), Event("raise", index)>>
    /\ index' = index + 1
    /\ handed' = Append(handed, Handed(index, frames, handed))
    /\ UNCHANGED harnessVars
    /\ UNCHANGED <<routerVars, pc, ret, inj, setupVars, outVars>>
    /\ UNCHANGED calledVars

\* build_chain(index) with a middleware at index: the middleware runs up to
\* its call_next, or raises before it
EnterMiddleware ==
    /\ pc = "chain_call"
    /\ index < Len(middleware_stack)
    /\ LET middleware == middleware_stack[index + 1]
       IN  IF CallsNext(middleware)
           THEN /\ frames' = Append(frames, [index |-> index, kind |-> middleware])
                /\ index' = NextIndex(index)
                /\ trace' = Append(trace, Event("pre", index))
                /\ UNCHANGED <<pc, ret>>
           ELSE /\ ret' = WithoutNext(middleware)
                /\ pc' = "chain_return"
                /\ trace' = trace \o <<Event("pre", index),
                                       Event(IF middleware = "short" THEN "short" ELSE "raise",
                                             index)>>
                /\ UNCHANGED <<frames, index>>
    /\ handed' = Append(handed, Handed(index, frames, handed))
    /\ UNCHANGED harnessVars
    /\ UNCHANGED <<routerVars, inj, setupVars, outVars>>
    /\ UNCHANGED calledVars

\* build_chain(index) past the last middleware: handler(request), which is
\* handler_with_dependencies and so DependencyInjector.inject
Terminal(env, body) ==
    /\ pc = "chain_call"
    /\ index >= Len(middleware_stack)
    /\ LET kwargs == InjectKwargs(route_match.path_params)
       IN  /\ ret' = Inject(route_match.handler, kwargs, overrides, env, body)
           /\ provider_calls' = ProviderCalls(route_match.handler, overrides, env)
           /\ trace' = IF BodyRuns(route_match.handler, kwargs, overrides, env)
                       THEN trace \o <<Event("inject", index), Event("handler", index)>>
                       ELSE Append(trace, Event("inject", index))
    /\ pc' = "chain_return"
    /\ handed' = Append(handed, Handed(index, frames, handed))
    /\ UNCHANGED harnessVars
    /\ UNCHANGED <<routerVars, inj, setupVars, index, frames, outVars>>
    /\ UNCHANGED handled_by

\* "await call_next(request)" ends in the innermost suspended middleware,
\* with a value or with an exception; the middleware runs to its end
ResumeMiddleware ==
    /\ pc = "chain_return"
    /\ frames # <<>>
    /\ LET f == frames[Len(frames)]
       IN  IF CallsNextAgain(f.kind) /\ ret.t # "exc"
           THEN /\ frames' = [frames EXCEPT ![Len(frames)].kind = "twice_done"]
                /\ index' = NextIndex(f.index)
                /\ pc' = "chain_call"
                /\ trace' = Append(trace, Event("again", f.index))
                /\ UNCHANGED ret
           ELSE /\ ret' = Resume(f.kind, f.index, ret)
                /\ trace' = Append(trace,
                                   Event(IF ret.t = "exc" THEN "observe" ELSE "post", f.index))
                /\ frames' = SubSeq(frames, 1, Len(frames) - 1)
                /\ UNCHANGED <<pc, index>>
    /\ UNCHANGED <<routerVars, inj, setupVars, outVars>>
    /\ UNCHANGED calledVars
    /\ UNCHANGED extVars

\* a dispatcher that runs the chain again when it raised
ChainDoneRetries ==
    /\ pc = "chain_return"
    /\ frames = <<>>
    /\ IF ret.t = "exc"
       THEN pc' = "chain_call" /\ index' = 0 /\ UNCHANGED response
       ELSE pc' = "convert" /\ response' = ret /\ UNCHANGED index
    /\ UNCHANGED <<routerVars, inj, trace, setupVars, frames, ret, sent, escaped>>
    /\ UNCHANGED calledVars
    /\ UNCHANGED extVars

\* build_chain(0) ends: execute returns to handle_http, or raises into its
\* except clause
ChainDone ==
    /\ pc = "chain_return"
    /\ frames = <<>>
    /\ IF ret.t = "exc"
       THEN pc' = "except" /\ UNCHANGED response
       ELSE pc' = "convert" /\ response' = ret
    /\ UNCHANGED <<routerVars, inj, trace, setupVars, chainVars, sent, escaped>>
    /\ UNCHANGED calledVars
    /\ UNCHANGED extVars

\* lines 255-257: response = await self.handle_exception(request, exc)
HandleException(o) ==
    /\ pc = "except"
    /\ LET r == HandleExceptionResult(exception_handlers, ret, o)
       IN  IF r.t = "exc"
           THEN escaped' = r /\ pc' = "crashed" /\ UNCHANGED response
           ELSE response' = r /\ pc' = "convert" /\ UNCHANGED escaped
    /\ trace' = Append(trace, Event("handle_exception", 0))
    /\ UNCHANGED <<routerVars, inj, setupVars, chainVars, sent>>
    /\ handled_by' = HandledBy(exception_handlers, ret)
    /\ UNCHANGED provider_calls
    /\ UNCHANGED extVars

\* a dispatcher that sends what the chain returned as it is
ConvertDictKeepsDict ==
    /\ pc = "convert"
    /\ response' = response
    /\ pc' = "send_start"
    /\ UNCHANGED <<routerVars, inj, trace, setupVars, chainVars, sent, escaped>>
    /\ UNCHANGED calledVars
    /\ UNCHANGED extVars

\* lines 259-261: a dict becomes JSONResponse(data=response)
ConvertDict ==
    /\ pc = "convert"
    /\ response' = IF response.t = "dict"
                   THEN JSONResponse(response.data, "", "success", 200, response.serialisable)
                   ELSE response
    /\ pc' = "send_start"
    /\ UNCHANGED <<routerVars, inj, trace, setupVars, chainVars, sent, escaped>>
    /\ UNCHANGED calledVars
    /\ UNCHANGED extVars

\* await response(send), up to the http.response.start message; calling what
\* is no Response raises TypeError
SendStart ==
    /\ pc = "send_start"
    /\ IF response.t = "Response"
       THEN /\ sent' = Append(sent, StartMessage(response))
            /\ pc' = "send_body"
            /\ UNCHANGED escaped
       ELSE /\ escaped' = Exc("TypeError", 0, "object is not callable", TRUE)
            /\ pc' = "crashed"
            /\ UNCHANGED sent
    /\ UNCHANGED <<routerVars, inj, trace, setupVars, chainVars, response>>
    /\ UNCHANGED calledVars
    /\ UNCHANGED extVars

\* the body: json.dumps(self.content), then the http.response.body message
SendBody ==
    /\ pc = "send_body"
    /\ IF response.serialisable
       THEN /\ sent' = Append(sent, BodyMessage(response))
            /\ pc' = "done"
            /\ UNCHANGED escaped
       ELSE /\ escaped' = Exc("TypeError", 0, "not JSON serializable", TRUE)
            /\ pc' = "crashed"
            /\ UNCHANGED sent
    /\ UNCHANGED <<routerVars, inj, trace, setupVars, chainVars, response>>
    /\ UNCHANGED calledVars
    /\ UNCHANGED extVars

(***************************************************************************)
(* Inputs of the application                                               *)
(***************************************************************************)
AppTemplates == { <<"/", "u", "/", "{", "x", "}">> }
AppHandlers == {"get_user"}
AppPaths == { <<"/", "u", "/", "4">>, <<"/", "u", "/", "s">>, <<"/", "4">> }
HandlerClasses == {"HTTPException", "ValueError"}
Envs == [ProviderNames -> ProviderOutcomes]

Next ==
    \/ \E tpl \in AppTemplates, h \in AppHandlers : AddRoute(tpl, h, {"GET"})
    \/ \E kind \in MiddlewareKinds : AddMiddleware(kind)
    \/ \E cls \in HandlerClasses : RegisterExceptionHandler(cls)
    \/ \E p \in AppPaths, m \in Methods : Receive(p, m)
    \/ RouteRequest
    \/ EnterMiddleware
    \/ \E env \in Envs, body \in Bodies : Terminal(env, body)
    \/ ResumeMiddleware
    \/ ChainDone
    \/ \E o \in CustomOutcomes : HandleException(o)
    \/ ConvertDict
    \/ SendStart
    \/ SendBody

Spec == InitApp /\ [][Next]_vars

(***************************************************************************)
(* Injector harness: overrides and calls of inject on drawn inputs         *)
(***************************************************************************)
InjectHandlers == {"get_user", "list_items", "by_x", "strict", "from_ctx"}
AllSupplied ==
    [k \in {NameRequest, <<"x">>, <<"db">>, <<"zz">>} |->
        CASE k = NameRequest -> RequestObj
          [] k = <<"x">>     -> IntVal(42)
          [] k = <<"db">>    -> ObjVal("supplied", "db")
          [] OTHER           -> StrVal(<<"u">>)]
SuppliedKwargs == {[k \in K |-> AllSupplied[k]] : K \in SUBSET DOMAIN AllSupplied}
InjectBodies == {"echo", "value_error"}
OverrideNames == {<<"db">>, <<"x">>, NameRequest}

InitInject == InitApp

\* injector.override(name, factory): self.overrides[name] = factory
Override(name, factory) ==
    /\ inj.stage = "off"
    /\ overrides' = DictSet(overrides, name, factory)
    /\ UNCHANGED <<routerVars, pc, inj, middleware_stack, exception_handlers, trace>>
    /\ UNCHANGED <<chainVars, outVars, calledVars>>
    /\ UNCHANGED extVars

\* await injector.inject(h, **kwargs), with the providers behaving as env says
\* and the body of h as body says
InjectCall(h, kwargs, env, body) ==
    /\ inj.stage = "off"
    /\ inj' = [stage |-> "done", h |-> h, kwargs |-> kwargs, env |-> env, body |-> body,
               passed |-> Passed(h, kwargs, overrides, env),
               out |-> Inject(h, kwargs, overrides, env, body)]
    /\ provider_calls' = ProviderCalls(h, overrides, env)
    /\ UNCHANGED <<routerVars, pc, trace, setupVars, chainVars, outVars, handled_by>>
    /\ UNCHANGED extVars

\* the call is over; the injector keeps its tables for the next one
InjectReturn ==
    /\ inj.stage = "done"
    /\ inj' = NoInject
    /\ provider_calls' = <<>>
    /\ UNCHANGED <<routerVars, pc, trace, setupVars, chainVars, outVars, handled_by>>
    /\ UNCHANGED extVars

NextInject ==
    \/ \E name \in OverrideNames, factory \in ProviderNames : Override(name, factory)
    \/ \E h \in InjectHandlers, kwargs \in SuppliedKwargs, env \in Envs, body \in InjectBodies :
          InjectCall(h, kwargs, env, body)
    \/ InjectReturn

SpecInject == InitInject /\ [][NextInject]_vars

(***************************************************************************)
(* Translator harness: registrations, then one call of handle_exception    *)
(***************************************************************************)
TranslateClasses == {"Exception", "HTTPException", "UnauthorizedException", "ValueError"}
TranslateExcs ==
    {ProviderExc("unauthorized")} \cup
        {RunBody(b, <<>>) : b \in {"not_found", "value_error", "key_error"}}

InitTranslate == InitApp

\* await app.handle_exception(request, exc)
TranslateCall(exc, o) ==
    /\ pc = "setup"
    /\ ret' = exc
    /\ handled_by' = HandledBy(exception_handlers, exc)
    /\ LET r == HandleExceptionResult(exception_handlers, exc, o)
       IN  IF r.t = "exc"
           THEN escaped' = r /\ UNCHANGED response
           ELSE response' = r /\ UNCHANGED escaped
    /\ trace' = Append(trace, Event("handle_exception", 0))
    /\ pc' = "translated"
    /\ UNCHANGED <<routerVars, inj, setupVars, index, frames, sent, provider_calls>>
    /\ UNCHANGED extVars

NextTranslate ==
    \/ \E cls \in TranslateClasses : RegisterExceptionHandler(cls)
    \/ \E exc \in TranslateExcs, o \in CustomOutcomes : TranslateCall(exc, o)

SpecTranslate == InitTranslate /\ [][NextTranslate]_vars

(***************************************************************************)
(* Inputs of the router harness                                            *)
(***************************************************************************)
Templates ==
    { <<>>,
      <<"/", "{", "x">>,
      <<"/", "u">>,
      <<"/", "{", "x", "}">>,
      <<"/", "u", "/", "{", "x", "}">>,
      <<"/", "{", "x", "}", "/", "{", "y", "}">> }
MethodLists == { {"GET"}, {"get", "POST"} }
\* request paths: the empty path and the paths that begin with "/"
Paths == { p \in SeqsUpTo(PathChars, MaxPathLen) : p = <<>> \/ p[1] = Slash }

(***************************************************************************)
(* Router harness: registrations, then one match                           *)
(***************************************************************************)
\* in the router harness a handler is named by its registration number
InitRouter == InitApp

\* await router.match(path, method)
DoMatch(path, method) ==
    /\ pc = "setup"
    /\ rq_path' = path
    /\ rq_method' = method
    /\ route_match' = Match(routes, path, method)
    /\ pc' = "matched"
    /\ UNCHANGED <<routes, inj, trace, setupVars, chainVars, outVars>>
    /\ UNCHANGED calledVars
    /\ UNCHANGED extVars

NextRouter ==
    \/ \E tpl \in Templates, ms \in MethodLists :
          AddRoute(tpl, ToString(Len(routes) + 1), ms)
    \/ \E p \in Paths, m \in Methods : DoMatch(p, m)

SpecRouter == InitRouter /\ [][NextRouter]_vars

(***************************************************************************)
(* Reading of a template and a path segment by segment                     *)
(***************************************************************************)
\* the "/"-separated segments of s (a leading "/" gives a first empty segment)
RECURSIVE Split(_)
Split(s) ==
    IF \A i \in DOMAIN s : s[i] # Slash THEN <<s>>
    ELSE LET k == CHOOSE k \in DOMAIN s :
                     s[k] = Slash /\ \A j \in 1..(k - 1) : s[j] # Slash
         IN  <<SubSeq(s, 1, k - 1)>> \o Split(SubSeq(s, k + 1, Len(s)))

IsPlaceholder(seg) == Len(seg) >= 3 /\ seg[1] = LBrace /\ seg[Len(seg)] = RBrace
PlaceholderName(seg) == SubSeq(seg, 2, Len(seg) - 1)

\* the path matches the template: as many segments, literal segments equal,
\* a non-empty path segment at each placeholder
TemplateAccepts(tpl, path) ==
    LET ts == Split(tpl)
        ps == Split(path)
    IN  /\ Len(ts) = Len(ps)
        /\ \A i \in DOMAIN ts :
              IF IsPlaceholder(ts[i]) THEN Len(ps[i]) >= 1 ELSE ts[i] = ps[i]

PlaceholderNames(tpl) ==
    {PlaceholderName(seg) : seg \in {x \in Range(Split(tpl)) : IsPlaceholder(x)}}

\* the path segment standing at the placeholder called name
SegmentAt(tpl, path, name) ==
    LET ts == Split(tpl)
        i == CHOOSE i \in DOMAIN ts : IsPlaceholder(ts[i]) /\ PlaceholderName(ts[i]) = name
    IN  Split(path)[i]

PurelyNumeric(seg) == Len(seg) >= 1 /\ \A i \in DOMAIN seg : seg[i] \in AsciiDigits

\* C3: for every registered route and every path matching its template with an
\* allowed method, match returns a RouteMatch whose path_params has exactly the
\* template's placeholder names, each bound to its path segment, an integer when
\* the segment is purely numeric and the string otherwise.
C3_PathParamsOfEveryMatchingRoute ==
    pc = "matched" =>
        \A i \in DOMAIN routes :
            (Upper(rq_method) \in routes[i].methods /\ TemplateAccepts(routes[i].path, rq_path))
            => /\ route_match.kind = "match"
               /\ DOMAIN route_match.path_params = PlaceholderNames(routes[i].path)
               /\ \A name \in PlaceholderNames(routes[i].path) :
                     LET seg == SegmentAt(routes[i].path, rq_path, name)
                         v == route_match.path_params[name]
                     IN  /\ \A k \in DOMAIN seg : seg[k] # Slash
                         /\ IF PurelyNumeric(seg)
                            THEN v.t = "int" /\ v.n = IntOf(seg)
                            ELSE v.t = "str" /\ v.s = seg

\* the registration numbers of the routes that allow the method and whose
\* matcher accepts the path
Candidates == {i \in DOMAIN routes :
                  /\ Upper(rq_method) \in routes[i].methods
                  /\ PatternMatch(routes[i].pattern, rq_path).ok}

\* C4: match returns the handler of the earliest-registered route whose methods
\* contain the request method and whose matcher accepts the path.
C4_EarliestRegistrationWins ==
    (pc = "matched" /\ Candidates # {}) =>
        /\ route_match.kind = "match"
        /\ route_match.handler =
              routes[CHOOSE i \in Candidates : \A j \in Candidates : i <= j].handler

\* whenever match returns a RouteMatch it is the earliest candidate's, and it
\* returns None only when there is no candidate
OrderDeterminismOfReturnedMatch ==
    pc = "matched" =>
        /\ route_match.kind = "match" =>
              /\ Candidates # {}
              /\ route_match.handler =
                    routes[CHOOSE i \in Candidates : \A j \in Candidates : i <= j].handler
        /\ route_match.kind = "none" <=> Candidates = {}

(***************************************************************************)
(* The middleware chain                                                    *)
(***************************************************************************)
Routed == pc \notin {"setup", "received", "matched"}
ChainRunning == pc \in {"chain_call", "chain_return"}
Matched == Routed /\ route_match.kind = "match"
Has(e, i) == \E j \in DOMAIN trace : trace[j] = Event(e, i)
HasAny(e) == \E j \in DOMAIN trace : trace[j].e = e

\* nothing has raised while the request was handled
NothingRaised ==
    /\ ~HasAny("raise") /\ ~HasAny("observe") /\ ~HasAny("handle_exception")
    /\ ret.t # "exc"

\* M1(pre) .. Mn(pre), H, Mn(post) .. M1(post) for n middleware
OnionOrder(n) ==
    [j \in 1..n |-> Event("pre", j - 1)]
      \o <<Event("inject", n), Event("handler", n)>>
      \o [j \in 1..n |-> Event("post", n - j)]

IsPrefix(a, b) == Len(a) <= Len(b) /\ a = SubSeq(b, 1, Len(a))

\* C1: when every middleware calls its continuation once and nothing raises,
\* the calls of one request are M1(pre), .., Mn(pre), H, Mn(post), .., M1(post):
\* at every moment what has run is a prefix of that order, and it is the whole
\* of it once the chain has returned.
C1_OnionOrder ==
    (Matched /\ NothingRaised) =>
        /\ IsPrefix(trace, OnionOrder(Len(middleware_stack)))
        /\ ~ChainRunning => trace = OnionOrder(Len(middleware_stack))

C1_Witness ==
    /\ pc = "done" /\ Matched /\ NothingRaised
    /\ Len(middleware_stack) = 2
    /\ trace = <<Event("pre", 0), Event("pre", 1), Event("inject", 2), Event("handler", 2),
                 Event("post", 1), Event("post", 0)>>

\* C2: whatever handler, providers, middleware and exception handlers do, no
\* exception leaves handle_http and the request ends with the response sent.
C2_ResponseAlwaysSent ==
    /\ escaped = PyNone
    /\ pc # "crashed"

\* C8: when a middleware raises without calling its continuation, nothing
\* inward of it runs (no inner middleware, no provider, no handler), and the
\* exception comes out of the enclosing middleware's call_next: that
\* middleware observes it, and so does every middleware further out up to the
\* first one that substitutes a response; the middleware outside that one gets
\* the response.  When none substitutes a response the exception reaches the
\* Dispatcher, which translates it; otherwise the Dispatcher never sees it.
C8_RaiseBeforeNextStopsInward ==
    \A j \in DOMAIN trace :
        trace[j].e = "raise" =>
            LET k == trace[j].i
                suspended == \E f \in DOMAIN frames : frames[f].index = k - 1
                catchers == {p \in 1..k : middleware_stack[p] = "catch"}
                c == IF catchers = {} THEN 0
                     ELSE CHOOSE p \in catchers : \A q \in catchers : q <= p
            IN  /\ \A m \in DOMAIN trace :
                      /\ trace[m].e \notin {"inject", "handler"}
                      /\ trace[m].i <= k
                /\ (k >= 1 /\ suspended) => ret = RaisedBefore("raise_pre")
                /\ (k >= 1 /\ ~suspended) =>
                      \E m \in DOMAIN trace : m > j /\ trace[m] = Event("observe", k - 1)
                /\ \A m \in DOMAIN trace :
                      (m > j /\ trace[m].e \in {"post", "observe"}) =>
                          /\ trace[m].i >= c - 1 => trace[m].e = "observe"
                          /\ trace[m].i = c - 2 => trace[m].e = "post"
                /\ (c = 0 /\ ~ChainRunning)
                      => /\ ~HasAny("post")
                         /\ ret = RaisedBefore("raise_pre")
                         /\ pc # "except" => HasAny("handle_exception")
                /\ (c > 0 /\ ~ChainRunning) => ret # RaisedBefore("raise_pre")

C8_Witness ==
    /\ pc = "done"
    /\ Len(middleware_stack) = 2 /\ middleware_stack[2] = "raise_pre"
    /\ trace = <<Event("pre", 0), Event("pre", 1), Event("raise", 1), Event("observe", 0),
                 Event("handle_exception", 0)>>

(***************************************************************************)
(* The Dispatcher and the Exception Translator                             *)
(***************************************************************************)
\* no registered route allows the method and has a template the path matches
NoRouteFor(path, method) ==
    \A i \in DOMAIN routes :
        ~(method \in routes[i].methods /\ TemplateAccepts(routes[i].path, path))

\* the two messages of the 404 answer
NotFoundSent ==
    << [type |-> "http.response.start", status |-> 404,
        headers |-> [h \in {"content-type"} |-> "application/json"], content |-> <<>>],
       [type |-> "http.response.body", status |-> 0, headers |-> <<>>,
        content |-> [status |-> "error", data |-> <<>>, message |-> "Not Found"]] >>

\* C5: for a path that matches no registered template, and for a path that
\* matches a template only with a method its route does not allow, match
\* returns None and the Dispatcher answers 404, with the same response for the
\* two causes.
C5_NoMatchIs404 ==
    (Routed /\ NoRouteFor(rq_path, rq_method)) =>
        /\ route_match = MatchNone
        /\ pc \in {"convert", "send_start", "send_body", "done"}
        /\ response.status_code = 404
        /\ IsPrefix(sent, NotFoundSent)
        /\ pc = "done" => sent = NotFoundSent

\* the wrong-method cause: the path matches a registered template
C5_Witness ==
    /\ pc = "done" /\ rq_method = "POST"
    /\ \E i \in DOMAIN routes : TemplateAccepts(routes[i].path, rq_path)
    /\ NoRouteFor(rq_path, rq_method)
    /\ sent = NotFoundSent

\* the exception given to handle_exception, once it has been called
Translated == HasAny("handle_exception")
IsHTTPError(exc) == exc.cls \in {"HTTPException", "NotFoundException", "UnauthorizedException",
                                 "ValidationException"}
\* a registered exception handler applies: its class is the exception's class
\* or a base class of it
HandlerApplies(exc) ==
    \E i \in DOMAIN exception_handlers :
        exception_handlers[i] \in {exc.cls, "Exception"}
           \cup (IF IsHTTPError(exc) THEN {"HTTPException"} ELSE {})

GenericSent ==
    << [type |-> "http.response.start", status |-> 500,
        headers |-> [h \in {"content-type"} |-> "application/json"], content |-> <<>>],
       [type |-> "http.response.body", status |-> 0, headers |-> <<>>,
        content |-> [status |-> "error", data |-> <<>>, message |-> "Internal Server Error"]] >>

\* C7: an error that is not an HTTP-style error and to which no registered
\* handler applies is answered with status 500 and the fixed message: the
\* messages sent are the same whatever the error's type and message.
C7_GenericErrorHidesDetail ==
    (Translated /\ ~IsHTTPError(ret) /\ ~HandlerApplies(ret)) =>
        /\ pc \in {"convert", "send_start", "send_body", "done"}
        /\ response.status_code = 500
        /\ response.message = "Internal Server Error"
        /\ IsPrefix(sent, GenericSent)
        /\ pc = "done" => sent = GenericSent

C7_Witness ==
    /\ pc = "done" /\ Translated /\ Has("handler", Len(middleware_stack))
    /\ ret.cls = "KeyError" /\ ret.message = "secret"
    /\ exception_handlers = <<"ValueError">>
    /\ sent = GenericSent

\* C10: with two middleware that each set a header after calling next, X-A by
\* the first and X-B by the second, the response sent for a matched request
\* carries both headers, whatever the handler does.
C10_BothHeadersAlways ==
    (pc = "done" /\ Matched /\ middleware_stack = <<"hdr", "hdr">>) =>
        /\ {"X-A", "X-B"} \subseteq DOMAIN sent[1].headers
        /\ sent[1].headers["X-A"] = "1"
        /\ sent[1].headers["X-B"] = "1"

\* the headers are there when the handler returns a response or a bare dict
BothHeadersWhenHandlerReturns ==
    (pc = "done" /\ Matched /\ middleware_stack = <<"hdr", "hdr">> /\ ~Translated) =>
        /\ {"X-A", "X-B"} \subseteq DOMAIN sent[1].headers
        /\ sent[1].headers["X-A"] = "1"
        /\ sent[1].headers["X-B"] = "1"

(***************************************************************************)
(* Dependency injection                                                    *)
(***************************************************************************)
\* resolving h's markers by hand and merging with the supplied values, the
\* supplied value standing wherever a name is in both
MergedByHand(h, supplied, env) ==
    LET resolved == Resolve(h, overrides, env).resolved
    IN  [k \in DOMAIN resolved \cup DOMAIN supplied |->
            IF k \in DOMAIN supplied THEN supplied[k] ELSE resolved[k]]

\* the same result: the same value, or an exception of the same class
SameResult(a, b) == IF a.t = "exc" /\ b.t = "exc" THEN a.cls = b.cls ELSE a = b

\* C9 as stated: inject(h, **supplied) gives what calling h with the whole
\* merged mapping gives.
C9_Original_InjectIsCallWithMerged ==
    (inj.stage = "done" /\ Resolve(inj.h, overrides, inj.env).ok) =>
        SameResult(inj.out, Call(inj.h, MergedByHand(inj.h, inj.kwargs, inj.env), inj.body))

\* C9 amended: inject(h, **supplied) gives what resolving h's markers by hand,
\* merging with the supplied values (supplied over resolved), keeping only the
\* names h declares as parameters and calling h with that mapping gives; when a
\* provider fails both give the provider's exception.
C9_InjectIsCallWithMergedDeclared ==
    inj.stage = "done" =>
        IF Resolve(inj.h, overrides, inj.env).ok
        THEN LET merged == MergedByHand(inj.h, inj.kwargs, inj.env)
                 declared == [k \in DOMAIN merged \cap ParamNames(inj.h) |-> merged[k]]
             IN  inj.out = Call(inj.h, declared, inj.body)
        ELSE inj.out = Resolve(inj.h, overrides, inj.env).exc

\* a name collision: by_x declares x with a marker, and x is supplied
C9_Witness ==
    /\ inj.stage = "done" /\ inj.h = "by_x" /\ inj.body = "echo"
    /\ inj.env["get_x"] = "ok"
    /\ <<"x">> \in DOMAIN inj.kwargs
    /\ inj.out.t = "dict"
    /\ inj.out.data[<<"x">>] = IntVal(42)

(***************************************************************************)
(* Overrides, the keys passed to the handler, supplied parameters          *)
(***************************************************************************)
\* h's parameters that carry a dependency marker, in signature order, leaving
\* out those whose name is in skipped
MarkerParams(h, skipped) ==
    LET IsMarker(p) == p.default = "marker" /\ p.name \notin skipped
    IN  SelectSeq(Signature(h), IsMarker)

\* for each of those parameters the provider that stands for it: the override
\* registered under its name, else the declared provider
WantedProviders(h, skipped) ==
    LET mp == MarkerParams(h, skipped)
    IN  [i \in DOMAIN mp |->
            IF mp[i].name \in DOMAIN overrides THEN overrides[mp[i].name] ELSE mp[i].dep]

\* ps up to and including its first provider that fails under env
UpToFirstFailure(ps, env) ==
    IF \A i \in DOMAIN ps : env[ps[i]] = "ok" THEN ps
    ELSE SubSeq(ps, 1, CHOOSE i \in DOMAIN ps :
                           /\ env[ps[i]] # "ok"
                           /\ \A j \in 1..(i - 1) : env[ps[j]] = "ok")

CalledNames == [i \in DOMAIN provider_calls |-> provider_calls[i].provider]
AllCallsOk == \A i \in DOMAIN provider_calls : provider_calls[i].outcome = "ok"

\* C14 as stated: once override(name, f) is in the table, resolving a handler
\* with a marker parameter called name invokes f, whatever the name.
C14_Original_OverrideForEveryMarkerName ==
    (inj.stage = "done" /\ AllCallsOk) =>
        \A i \in DOMAIN Signature(inj.h) :
            LET p == Signature(inj.h)[i]
            IN  (p.default = "marker" /\ p.name \in DOMAIN overrides)
                    => overrides[p.name] \in Range(CalledNames)

\* C14 amended: in every call of inject, whatever overrides were installed
\* before it, the providers invoked are, for the handler's marker parameters
\* other than self and request taken in order, the override registered under
\* the parameter's name when there is one and the declared provider otherwise
\* (up to the first that fails): the override replaces the declared provider,
\* for every handler with a parameter of that name, in every later call.
C14_OverrideByParameterName ==
    inj.stage = "done" =>
        CalledNames = UpToFirstFailure(WantedProviders(inj.h, {NameSelf, NameRequest}), inj.env)

\* db is overridden by get_x: list_items gets get_x's value, get_db is not called
C14_Witness ==
    /\ inj.stage = "done" /\ inj.h = "list_items"
    /\ <<"db">> \in DOMAIN overrides /\ overrides[<<"db">>] = "get_x"
    /\ provider_calls = <<[provider |-> "get_x", outcome |-> "ok"]>>
    /\ inj.passed[<<"db">>] = Provided("get_x")

\* C16: inject calls the handler with exactly the keys of the merged mapping
\* that the handler declares, each with the merged value; a key the handler
\* does not declare is dropped and never makes the call fail.
C16_PassesExactlyDeclaredKeys ==
    (inj.stage = "done" /\ AllCallsOk) =>
        LET merged == MergedByHand(inj.h, inj.kwargs, inj.env)
        IN  /\ DOMAIN inj.passed = DOMAIN merged \cap ParamNames(inj.h)
            /\ \A k \in DOMAIN inj.passed : inj.passed[k] = merged[k]
            /\ ~(inj.out.t = "exc" /\ inj.out.message = "unexpected keyword argument")

\* list_items(db) called with request, x and zz supplied: only db is passed
C16_Witness ==
    /\ inj.stage = "done" /\ inj.h = "list_items" /\ inj.body = "echo"
    /\ DOMAIN inj.kwargs = {NameRequest, <<"x">>, <<"zz">>}
    /\ AllCallsOk
    /\ DOMAIN inj.passed = {<<"db">>}
    /\ inj.out.t = "dict"

\* C19: the provider of a marker parameter whose value is supplied to inject
\* (as the Dispatcher supplies request and the path parameters) is not invoked.
C19_NoProviderForSuppliedParameter ==
    inj.stage = "done" =>
        \A i \in DOMAIN Signature(inj.h) :
            LET p == Signature(inj.h)[i]
            IN  (p.default = "marker" /\ p.name \in DOMAIN inj.kwargs)
                    => DependencyFunc(p, overrides) \notin Range(CalledNames)

\* resolve does skip the parameters named self and request, marker or not
RequestParameterIsSkipped ==
    inj.stage = "done" =>
        \A i \in DOMAIN provider_calls :
            \E j \in DOMAIN Signature(inj.h) :
                /\ Signature(inj.h)[j].default = "marker"
                /\ Signature(inj.h)[j].name \notin {NameSelf, NameRequest}
                /\ DependencyFunc(Signature(inj.h)[j], overrides) = provider_calls[i].provider

(***************************************************************************)
(* Which registered exception handler is invoked                           *)
(***************************************************************************)
\* C12: when a handler is registered for the exception's own class it is the
\* one invoked, whatever else is registered and in whatever order.
C12_ConcreteClassHandlerFirst ==
    (pc = "translated" /\ ret.cls \in Range(exception_handlers)) => handled_by = ret.cls

\* the registered classes the exception is an instance of: its own class and
\* the classes above it
Applicable(exc) ==
    {i \in DOMAIN exception_handlers :
        \/ exception_handlers[i] \in {exc.cls, "Exception"}
        \/ IsHTTPError(exc) /\ exception_handlers[i] = "HTTPException"}

\* the handler invoked is the one registered earliest among those registered
\* for the exception's class or a class above it
EarliestApplicableHandlerInvoked ==
    pc = "translated" =>
        IF Applicable(ret) = {} THEN handled_by = ""
        ELSE handled_by =
                exception_handlers[CHOOSE i \in Applicable(ret) : \A j \in Applicable(ret) : i <= j]

(***************************************************************************)
(* Templates the route table holds                                         *)
(***************************************************************************)
\* the braces of tpl from position i on pair up, open telling whether a "{"
\* is waiting for its "}"
RECURSIVE BalancedFrom(_, _, _)
BalancedFrom(tpl, i, open) ==
    IF i > Len(tpl) THEN ~open
    ELSE IF tpl[i] = LBrace THEN ~open /\ BalancedFrom(tpl, i + 1, TRUE)
    ELSE IF tpl[i] = RBrace THEN open /\ BalancedFrom(tpl, i + 1, FALSE)
    ELSE BalancedFrom(tpl, i + 1, open)

\* C15: registration of an empty template or of one with unbalanced braces
\* fails and adds nothing, so the table never holds such a template.
C15_BadTemplateNeverRegistered ==
    \A i \in DOMAIN routes :
        /\ routes[i].path # <<>>
        /\ BalancedFrom(routes[i].path, 1, FALSE)

(***************************************************************************)
(* One request: what runs, how often, and what is sent                     *)
(***************************************************************************)
Count(e) == Cardinality({j \in DOMAIN trace : trace[j].e = e})
CountAt(e, i) == Cardinality({j \in DOMAIN trace : trace[j] = Event(e, i)})
NoCatchingMiddleware == \A i \in DOMAIN middleware_stack : middleware_stack[i] # "catch"
ProviderFailed == \E i \in DOMAIN provider_calls : provider_calls[i].outcome # "ok"

\* C11: the Exception Translator runs at most once per request; no
\* middleware, provider or handler runs a second time, and nothing is invoked
\* after a failure; the chain itself catches nothing: unless a middleware of
\* the application catches it, an exception raised inside the chain leaves the
\* chain unchanged in kind and is translated, once, by the Dispatcher.
C11_CaughtOnceNothingRetried ==
    /\ Count("handle_exception") <= 1
    /\ Count("inject") <= 1 /\ Count("handler") <= 1
    /\ \A i \in 0..Len(middleware_stack) : CountAt("pre", i) <= 1
    /\ \A j, m \in DOMAIN trace :
          /\ (j < m /\ trace[j].e \in {"raise", "observe", "handler", "handle_exception"})
                => trace[m].e \notin {"pre", "inject", "handler"}
          /\ (j < m /\ trace[j].e = "inject") => trace[m].e \notin {"pre", "inject"}
    /\ (NoCatchingMiddleware /\ (HasAny("raise") \/ HasAny("observe")) /\ ~ChainRunning)
          => ret.t = "exc"
    /\ (Routed /\ ~ChainRunning) =>
          /\ ret.t = "exc" => (pc = "except" \/ Count("handle_exception") = 1)
          /\ ret.t # "exc" => Count("handle_exception") = 0

\* the handler raises under two middleware: both observe, one translation
C11_Witness ==
    /\ pc = "done" /\ middleware_stack = <<"pass", "hdr">>
    /\ ret = RunBody("value_error", <<>>)
    /\ trace = <<Event("pre", 0), Event("pre", 1), Event("inject", 2), Event("handler", 2),
                 Event("observe", 1), Event("observe", 0), Event("handle_exception", 0)>>

C18_NoMatchRunsNothing ==
    (Routed /\ route_match.kind = "none") =>
        /\ trace = <<>>
        /\ provider_calls = <<>>
        /\ handled_by = ""
        /\ frames = <<>>
        /\ pc \in {"convert", "send_start", "send_body", "done"}
        /\ response.status_code = 404

C18_Witness ==
    /\ pc = "done" /\ route_match.kind = "none"
    /\ routes # <<>> /\ Len(middleware_stack) = 2 /\ exception_handlers # <<>>
    /\ trace = <<>> /\ sent[1].status = 404

\* C20: when every middleware calls call_next once and none raises, no
\* middleware is entered twice and the terminal handler is not invoked twice,
\* and once the chain has returned each middleware has been entered exactly
\* once and the terminal handler invoked exactly once.
C20_EachLinkExactlyOnce ==
    (Matched /\ \A i \in DOMAIN middleware_stack : middleware_stack[i] \in {"pass", "hdr", "catch"})
        => /\ \A i \in 0..(Len(middleware_stack) - 1) :
                 /\ CountAt("pre", i) <= 1
                 /\ ~ChainRunning => CountAt("pre", i) = 1
           /\ Count("pre") <= Len(middleware_stack)
           /\ Count("inject") <= 1
           /\ ~ChainRunning => CountAt("inject", Len(middleware_stack)) = 1

C20_Witness ==
    /\ pc = "done" /\ Matched
    /\ middleware_stack = <<"pass", "hdr", "pass">>
    /\ Count("pre") = 3 /\ Count("inject") = 1 /\ Count("handler") = 1 /\ Count("post") = 3

(***************************************************************************)
(* SecurityHeadersMiddleware on every response                             *)
(***************************************************************************)
\* the response sent carries the header of every registered "hdr" middleware
SecurityHeadersSent ==
    \A i \in DOMAIN middleware_stack :
        middleware_stack[i] = "hdr" => HeaderOf(i - 1) \in DOMAIN sent[1].headers

\* C24: with a security-headers middleware registered, every response the
\* application sends carries every configured security header, the 404 of an
\* unmatched route and the answers of the exception translator included.
C24_SecurityHeadersOnEveryResponse ==
    (pc = "done" /\ "hdr" \in Range(middleware_stack)) => SecurityHeadersSent

\* the headers are on the response whenever the chain ran and nothing raised
SecurityHeadersWhenNothingRaises ==
    (pc = "done" /\ Matched /\ NothingRaised) => SecurityHeadersSent

(***************************************************************************)
(* Exceptions caught by a middleware, and those that none catches          *)
(***************************************************************************)
\* the middleware at position i (from 0) caught what an inner layer raised,
\* and no middleware outward of it raises after its own call_next
CaughtAt(i) ==
    /\ i + 1 \in DOMAIN middleware_stack
    /\ middleware_stack[i + 1] = "catch"
    /\ Has("observe", i)
    /\ \A j \in 1..i : middleware_stack[j] # "raise_post"

\* the response of the catching middleware at i with the headers that the
\* "hdr" middleware outward of it set
CaughtResponse(i) ==
    [JSONResponse(NoData, "handled by middleware", "error", 502, TRUE) EXCEPT
        !.headers = [h \in DOMAIN JSONResponse(NoData, "", "", 0, TRUE).headers
                           \cup {HeaderOf(j - 1) : j \in {k \in 1..i : middleware_stack[k] = "hdr"}}
                     |-> IF h \in DOMAIN JSONResponse(NoData, "", "", 0, TRUE).headers
                         THEN JSONResponse(NoData, "", "", 0, TRUE).headers[h] ELSE "1"]]

\* C27: when a middleware catches what an inner layer raised and returns a
\* response, handle_exception is not invoked for the request and the response
\* sent is that middleware's, as the middleware outward of it transformed it;
\* an exception that leaves the chain uncaught, or that match raised, has been
\* given to handle_exception before anything else happens.
C27_CaughtByMiddlewareBypassesTranslator ==
    /\ \A i \in 0..(Len(middleware_stack) - 1) :
          CaughtAt(i) =>
              /\ ~HasAny("handle_exception")
              /\ handled_by = ""
              /\ (frames = <<>>) => ret = CaughtResponse(i)
              /\ pc \in {"convert", "send_start", "send_body", "done"} => response = CaughtResponse(i)
              /\ pc = "done" => sent = <<StartMessage(CaughtResponse(i)), BodyMessage(CaughtResponse(i))>>
    /\ (ret.t = "exc" /\ pc \in {"convert", "send_start", "send_body", "done", "crashed"})
          => Has("handle_exception", 0)
    /\ HasAny("handle_exception") => ret.t = "exc"

C27_Witness ==
    /\ pc = "done"
    /\ middleware_stack = <<"hdr", "catch", "pass">>
    /\ Has("handler", 3) /\ Has("observe", 2) /\ CaughtAt(1)
    /\ sent[1].status = 502 /\ "X-A" \in DOMAIN sent[1].headers

(***************************************************************************)
(* Chain harness: middleware that substitute the request, call call_next   *)
(* twice, or do not call it                                                *)
(***************************************************************************)
ChainKinds == {"pass", "swap", "twice", "short"}

NextChain ==
    \/ \E tpl \in AppTemplates, h \in AppHandlers : AddRoute(tpl, h, {"GET"})
    \/ \E kind \in ChainKinds : AddMiddleware(kind)
    \/ \E p \in AppPaths : Receive(p, "GET")
    \/ RouteRequest
    \/ EnterMiddleware
    \/ \E body \in {"echo", "none", "value_error"} :
          Terminal([p \in ProviderNames |-> "ok"], body)
    \/ ResumeMiddleware
    \/ ChainDone
    \/ \E o \in CustomOutcomes : HandleException(o)
    \/ ConvertDict
    \/ SendStart
    \/ SendBody

SpecChain == InitApp /\ [][NextChain]_vars

\* C26: the request a middleware gives to call_next is the request the next
\* link (the next middleware, or the terminal handler) is invoked with.
C26_CallNextRequestReachesNextLink ==
    \A j \in DOMAIN handed : handed[j].got = handed[j].given

\* every link of the chain is invoked with the request execute was called with
EveryLinkGetsRequestOfExecute ==
    \A j \in DOMAIN handed : handed[j].got = RequestObj

\* a "swap" middleware has called call_next and the link after it has run
SubstituteGiven ==
    \E j \in DOMAIN handed : handed[j].given = SubstituteObj

SentTypes == [j \in DOMAIN sent |-> sent[j].type]

\* C28: each request ends with exactly one http.response.start followed by
\* exactly one http.response.body and nothing after them, also when a
\* middleware calls call_next more than once or not at all.
C28_ExactlyOneStartThenOneBody ==
    pc \in {"done", "crashed"} =>
        SentTypes = <<"http.response.start", "http.response.body">>

\* never more than one start and one body, in this order, however often the
\* handler ran; both are sent whenever handle_http returns
AtMostOneResponse ==
    /\ IsPrefix(SentTypes, <<"http.response.start", "http.response.body">>)
    /\ pc = "done" => SentTypes = <<"http.response.start", "http.response.body">>

\* a request whose handler ran twice ended with one response
HandlerRanTwiceOneResponse ==
    /\ pc = "done" /\ Count("handler") = 2 /\ Count("again") = 1
    /\ Len(sent) = 2

\* a request answered by a middleware that did not call call_next
ShortCircuitOneResponse ==
    /\ pc = "done" /\ HasAny("short") /\ Count("handler") = 0
    /\ Len(sent) = 2 /\ sent[2].content.message = "short circuit"

(***************************************************************************)
(* Concurrent requests: handle_http calls that interleave at their awaits, *)
(* and MiddlewareManager.add while they run                                *)
(***************************************************************************)
\* each call is for a path of its own: /u/4 and /u/u
ConcPath(r) == <<"/", "u", "/", <<"4", "u">>[r]>>
ConcEnv == [p \in ProviderNames |-> "ok"]

\* request = Request(scope, receive) of call r
ConcReceive(r) ==
    /\ tasks[r].pc = "idle"
    /\ routes # <<>>
    /\ tasks' = [tasks EXCEPT ![r].pc = "received",
                              ![r].request = [obj |-> ObjVal("request", ToString(r)),
                                              path |-> ConcPath(r)]]
    /\ UNCHANGED <<othersConc, channels>>

\* a dispatcher that keeps the request being handled in one shared place
TaskRequestShared(ts, r) == ts[CHOOSE x \in ReqIds : ts[x].pc # "idle"].request

\* the local variable request of call r
TaskRequest(ts, r) == ts[r].request

\* lines 227-238 for call r: the match, then the 404, the answer of
\* handle_exception, or the start of execute at build_chain(0)
ConcRoute(r) ==
    /\ tasks[r].pc = "received"
    /\ LET m == Match(routes, TaskRequest(tasks, r).path, "GET")
       IN  tasks' = [tasks EXCEPT
              ![r].route_match = m,
              ![r].pc = IF m.kind = "match" THEN "chain_call" ELSE "send",
              ![r].began = middleware_stack,
              ![r].response =
                  CASE m.kind = "none" -> NotFound
                    [] m.kind = "raise" ->
                         HandleExceptionResult(exception_handlers,
                             Exc(m.exc, 0, "invalid literal for int()", TRUE), "response")
                    [] OTHER -> PyNone]
    /\ UNCHANGED <<othersConc, channels>>

\* build_chain(index) of call r: the middleware at index up to its call_next,
\* or past the last middleware the handler
ConcBuildChain(r) ==
    /\ tasks[r].pc = "chain_call"
    /\ LET t == tasks[r]
       IN  IF t.index < Len(middleware_stack)
           THEN tasks' = [tasks EXCEPT
                   ![r].frames = Append(t.frames, [index |-> t.index,
                                                   kind |-> middleware_stack[t.index + 1]]),
                   ![r].ran = Append(t.ran, middleware_stack[t.index + 1]),
                   ![r].index = NextIndex(t.index)]
           ELSE LET kwargs == DictSet(t.route_match.path_params, NameRequest,
                                      TaskRequest(tasks, r).obj)
                IN  tasks' = [tasks EXCEPT
                       ![r].ret = Inject(t.route_match.handler, kwargs, overrides,
                                         ConcEnv, "echo"),
                       ![r].called = Passed(t.route_match.handler, kwargs, overrides, ConcEnv),
                       ![r].pc = "chain_return"]
    /\ UNCHANGED <<othersConc, channels>>

\* a value or an exception comes back in call r: to the innermost suspended
\* middleware, or from execute to handle_http (lines 249-261)
ConcReturn(r) ==
    /\ tasks[r].pc = "chain_return"
    /\ LET t == tasks[r]
       IN  IF t.frames # <<>>
           THEN LET f == t.frames[Len(t.frames)]
                IN  tasks' = [tasks EXCEPT
                       ![r].ret = Resume(f.kind, f.index, t.ret),
                       ![r].frames = SubSeq(t.frames, 1, Len(t.frames) - 1)]
           ELSE LET resp == IF t.ret.t = "exc"
                            THEN HandleExceptionResult(exception_handlers, t.ret, "response")
                            ELSE t.ret
                IN  tasks' = [tasks EXCEPT
                       ![r].response =
                           IF resp.t = "dict"
                           THEN JSONResponse(resp.data, "", "success", 200, resp.serialisable)
                           ELSE resp,
                       ![r].pc = "send"]
    /\ UNCHANGED <<othersConc, channels>>

\* await response(send) of call r: one message per step on the send
\* callable the call was given
ConcSend(r) ==
    /\ tasks[r].pc = "send"
    /\ tasks[r].response.t = "Response"
    /\ IF channels[r] = <<>>
       THEN /\ channels' = [channels EXCEPT ![r] = <<StartMessage(tasks[r].response)>>]
            /\ UNCHANGED tasks
       ELSE /\ channels' = [channels EXCEPT ![r] = Append(@, BodyMessage(tasks[r].response))]
            /\ tasks' = [tasks EXCEPT ![r].pc = "done"]
    /\ UNCHANGED othersConc

NextConc ==
    \/ \E tpl \in AppTemplates, h \in AppHandlers :
          (\A r \in ReqIds : tasks[r].pc = "idle") /\ AddRoute(tpl, h, {"GET"})
    \/ AddMiddleware("hdr")
    \/ \E r \in ReqIds : ConcReceive(r)
    \/ \E r \in ReqIds : ConcRoute(r)
    \/ \E r \in ReqIds : ConcBuildChain(r)
    \/ \E r \in ReqIds : ConcReturn(r)
    \/ \E r \in ReqIds : ConcSend(r)

SpecConc == InitApp /\ [][NextConc]_vars

\* the Request object made for call r
OwnRequest(r) == ObjVal("request", ToString(r))

\* what call r answers when it is the only call: the handler's echo of the
\* keyword arguments of that call, with the header of every "hdr" middleware
\* among ran, the middleware the call went through
AnswerAlone(r, ran) ==
    LET m == Match(routes, ConcPath(r), "GET")
        out == Inject(m.handler, DictSet(m.path_params, NameRequest, OwnRequest(r)),
                      overrides, ConcEnv, "echo")
        set == {HeaderOf(i - 1) : i \in {k \in DOMAIN ran : ran[k] = "hdr"}}
        resp == JSONResponse(out.data, "", "success", 200, out.serialisable)
    IN  [resp EXCEPT !.headers = [h \in DOMAIN resp.headers \cup set |->
                                     IF h \in DOMAIN resp.headers THEN resp.headers[h] ELSE "1"]]

\* C21: two handle_http calls that interleave at their awaits do not mix:
\* each handler is called with the Request object and the path parameters of
\* its own call, and the messages given to a call's send are those of the
\* answer the call gives when it runs alone, start then body, nothing of the
\* other call.
C21_ConcurrentRequestsDoNotMix ==
    \A r \in ReqIds :
        LET t == tasks[r]
        IN  /\ t.called # <<>> =>
                  /\ t.called[NameRequest] = OwnRequest(r)
                  /\ t.called[<<"x">>] = IF r = 1 THEN IntVal(4) ELSE StrVal(<<"u">>)
            /\ t.pc \in {"idle", "received", "chain_call", "chain_return"} => channels[r] = <<>>
            /\ IsPrefix(channels[r], <<StartMessage(AnswerAlone(r, t.ran)),
                                       BodyMessage(AnswerAlone(r, t.ran))>>)
            /\ t.pc = "done" => Len(channels[r]) = 2

\* call 1 is suspended inside the chain after its handler ran while call 2,
\* begun later, has sent its start message and not yet its body
C21_Witness ==
    /\ tasks[1].pc = "chain_return" /\ tasks[1].frames # <<>> /\ tasks[1].called # <<>>
    /\ tasks[2].pc = "send" /\ Len(channels[2]) = 1 /\ tasks[2].called # <<>>
    /\ channels[2][1].status = 200

\* C22: the chain a request goes through is the middleware sequence as it was
\* when execute began; a middleware added while the request is suspended
\* inside the chain does not run for it.
C22_ChainIsSequenceWhenExecuteBegan ==
    \A r \in ReqIds :
        /\ IsPrefix(tasks[r].ran, tasks[r].began)
        /\ (tasks[r].route_match.kind = "match" /\ tasks[r].pc \in {"chain_return", "send", "done"})
              => tasks[r].ran = tasks[r].began

\* what a request goes through is the sequence as it is when build_chain
\* reaches its end; it is the sequence of the beginning when nothing was added
ChainIsSequenceWhenChainEnds ==
    \A r \in ReqIds :
        /\ IsPrefix(tasks[r].ran, middleware_stack)
        /\ IsPrefix(tasks[r].began, middleware_stack)
        /\ (tasks[r].began = middleware_stack) => IsPrefix(tasks[r].ran, tasks[r].began)

(***************************************************************************)
(* Application.include_router: a Router of its own, then its inclusion     *)
(***************************************************************************)
\* str.rstrip("/")
RECURSIVE RStrip(_)
RStrip(s) ==
    IF s # <<>> /\ s[Len(s)] = Slash THEN RStrip(SubSeq(s, 1, Len(s) - 1)) ELSE s

\* router = Router(prefix=prefix)
MakeRouter(prefix) ==
    /\ pc = "setup"
    /\ ~router.made
    /\ router' = [made |-> TRUE, prefix |-> RStrip(prefix), routes |-> <<>>]
    /\ UNCHANGED <<coreVars, othersInclude, included>>

\* router.add_route(path, handler, methods): the route is compiled for
\* router.prefix + path as the prefix is at this moment
RouterAddRoute(path, handler, methods) ==
    /\ pc = "setup"
    /\ router.made
    /\ Len(router.routes) < MaxRoutes
    /\ CompileOk(FindParams(router.prefix \o path, 1))
    /\ router' = [router EXCEPT
                     !.routes = Append(@, Route(router.prefix \o path, handler, methods))]
    /\ UNCHANGED <<coreVars, othersInclude, included>>

\* app.include_router(router, prefix)
IncludeRouter(prefix) ==
    /\ pc = "setup"
    /\ router.made
    /\ included = <<>>
    /\ router' = [router EXCEPT
                     !.prefix = IF prefix # <<>> THEN RStrip(prefix) \o @ ELSE @]
    /\ included' = Append(included, [prefix |-> prefix, had |-> Len(router.routes)])
    /\ routes' = routes \o router.routes
    /\ UNCHANGED <<rq_path, rq_method, route_match, pc, overrides, inj, middleware_stack,
                   exception_handlers, index, frames, ret, response, sent, trace, escaped,
                   provider_calls, handled_by, othersInclude>>

IncludeTemplates == { <<"/", "u">>, <<"/", "u", "/", "{", "x", "}">> }
IncludePrefixes == { <<>>, <<"/", "y">>, <<"/", "y", "/">> }
IncludePaths ==
    { <<"/", "u">>, <<"/", "u", "/", "4">>, <<"/", "y", "/", "u">>,
      <<"/", "y", "/", "u", "/", "4">>, <<"/", "y", "/", "y", "/", "u">> }

NextInclude ==
    \/ \E prefix \in IncludePrefixes : MakeRouter(prefix)
    \/ \E tpl \in IncludeTemplates, ms \in MethodLists :
          RouterAddRoute(tpl, ToString(Len(tpl)), ms)
    \/ \E prefix \in IncludePrefixes : IncludeRouter(prefix)
    \/ \E p \in IncludePaths, m \in Methods : DoMatch(p, m)

SpecInclude == InitApp /\ [][NextInclude]_vars

\* the routes the router had when it was included
RoutesIncluded == SubSeq(router.routes, 1, IF included = <<>> THEN 0 ELSE included[1].had)

\* C23: after include_router(router, prefix=P) with P not empty, every route
\* registered on the router under the full path T is matched by the
\* application at P (without trailing "/") followed by T, with the methods
\* and the handler of the route.
C23_IncludedRoutesMatchUnderPrefix ==
    (included # <<>> /\ included[1].prefix # <<>>) =>
        \A k \in DOMAIN RoutesIncluded, p \in IncludePaths :
            TemplateAccepts(RStrip(included[1].prefix) \o RoutesIncluded[k].path, p) =>
                \A m \in RoutesIncluded[k].methods :
                    /\ Match(routes, p, m).kind = "match"
                    /\ Match(routes, p, m).handler = RoutesIncluded[k].handler

\* the included routes are matched at the full path they were registered
\* under, whatever prefix include_router was given
IncludedRoutesMatchUnderOwnPath ==
    included # <<>> =>
        \A k \in DOMAIN RoutesIncluded, p \in IncludePaths :
            TemplateAccepts(RoutesIncluded[k].path, p) =>
                \A m \in RoutesIncluded[k].methods :
                    /\ Match(routes, p, m).kind = "match"
                    /\ Match(routes, p, m).handler = RoutesIncluded[k].handler

\* a router with a route was included under a prefix
IncludedUnderPrefix ==
    /\ included # <<>> /\ included[1].prefix = <<"/", "y", "/">> /\ included[1].had = 2
    /\ router.prefix = <<"/", "y", "/", "y">>
    /\ pc = "matched" /\ rq_path = <<"/", "y", "/", "u">> /\ route_match.kind = "match"

(***************************************************************************)
(* WriteThrough.set and WriteThrough.delete on one key                     *)
(***************************************************************************)
\* caller c begins strategy.set(key, value, writer) or
\* strategy.delete(key, deleter)
WtBegin(c, op, value) ==
    /\ wt_calls[c].pc \in {"idle", "done", "raised"}
    /\ wt_calls' = [wt_calls EXCEPT ![c] = [pc |-> "source", op |-> op, value |-> value]]
    /\ wt_clean' = (wt_clean /\ \A d \in Callers : wt_calls[d].pc \in {"idle", "done", "raised"})
    /\ UNCHANGED <<othersCache, source, cache>>

\* "await writer(value)" / "await deleter()": the source is written, or the
\* callable raises and the call ends there
WtSource(c, ok) ==
    /\ wt_calls[c].pc = "source"
    /\ IF ok
       THEN /\ source' = wt_calls[c].value
            /\ wt_calls' = [wt_calls EXCEPT ![c].pc = "cache"]
            /\ UNCHANGED wt_clean
       ELSE /\ wt_calls' = [wt_calls EXCEPT ![c].pc = "raised"]
            /\ wt_clean' = FALSE
            /\ UNCHANGED source
    /\ UNCHANGED <<othersCache, cache>>

\* "await self.cache.set(key, value, ttl=cache_ttl)" /
\* "await self.cache.delete(key)": the cache is written, or the backend raises
WtCache(c, ok) ==
    /\ wt_calls[c].pc = "cache"
    /\ IF ok
       THEN /\ cache' = wt_calls[c].value
            /\ wt_calls' = [wt_calls EXCEPT ![c].pc = "done"]
            /\ UNCHANGED wt_clean
       ELSE /\ wt_calls' = [wt_calls EXCEPT ![c].pc = "raised"]
            /\ wt_clean' = FALSE
            /\ UNCHANGED cache
    /\ UNCHANGED <<othersCache, source>>

NextCache ==
    \/ \E c \in Callers, v \in {"a", "b"} : WtBegin(c, "set", v)
    \/ \E c \in Callers : WtBegin(c, "delete", "None")
    \/ \E c \in Callers, ok \in BOOLEAN : WtSource(c, ok)
    \/ \E c \in Callers, ok \in BOOLEAN : WtCache(c, ok)

SpecCache == InitApp /\ [][NextCache]_vars

AllCallsFinished == \A c \in Callers : wt_calls[c].pc \in {"idle", "done", "raised"}

\* C25: once every set and delete call on the key has finished, the value in
\* the cache is the value last written to the source, and the key is absent
\* from the cache when the source entry was deleted; also when two calls
\* interleaved and when a writer or a cache step failed.
C25_CacheConsistentWithSource ==
    AllCallsFinished => cache = source

\* cache and source agree after calls made one after the other without failure
ConsistentWhenSequentialAndNothingFails ==
    (AllCallsFinished /\ wt_clean) => cache = source

\* two finished calls that overlapped, none failed, cache and source differ
InterleavedCallsLeftStaleCache ==
    /\ wt_calls[1].pc = "done" /\ wt_calls[2].pc = "done"
    /\ wt_calls[1].op = "set" /\ wt_calls[2].op = "set"
    /\ source = wt_calls[2].value /\ cache = wt_calls[1].value /\ cache # source

(***************************************************************************)
(* Generator providers: resolve's next(gen) / gen.__anext__(), and what    *)
(* becomes of the generator object afterwards                              *)
(***************************************************************************)
\* kind: "sync" (generator function) or "async" (async generator function)
\* style: "plain"   setup; yield value; teardown statements
\*        "finally" setup; try: yield value; finally: teardown statements
\* resolve, lines 71-78: gen = dependency_func(); value = next(gen) or
\* await gen.__anext__(); the generator runs its setup and is suspended at
\* its yield, resolve's local variable gen refers to it
GenResolve(kind, style) ==
    /\ gen_pc = "idle"
    /\ Len(gens) < MaxResolves
    /\ gens' = Append(gens, [kind |-> kind, style |-> style, state |-> "suspended",
                             held |-> TRUE, advanced |-> 1])
    /\ gen_log' = Append(gen_log, Event("setup", Len(gens) + 1))
    /\ gen_pc' = "resolving"
    /\ UNCHANGED othersGen

\* resolve returns the dict of values (line 84): its local gen is gone and
\* nothing refers to the generator object any more
GenResolveReturn ==
    /\ gen_pc = "resolving"
    /\ gens' = [gens EXCEPT ![Len(gens)].held = FALSE]
    /\ gen_pc' = "resolved"
    /\ UNCHANGED <<othersGen, gen_log>>

\* inject, lines 110-114: the handler is called with the value and returns
\* or raises; the request ends
GenHandler(raises) ==
    /\ gen_pc = "resolved"
    /\ gen_log' = Append(gen_log, Event(IF raises THEN "handler_raised" ELSE "handler",
                                        Len(gens)))
    /\ gen_pc' = "idle"
    /\ UNCHANGED <<othersGen, gens>>

\* the interpreter finalises a suspended generator that nothing refers to
\* (close() on deallocation for a generator, the event loop's asyncgen hook
\* calling aclose() for an async generator): GeneratorExit is raised at the
\* yield, so a finally clause around it runs and plain statements after it
\* do not; when this happens is up to the interpreter
GenFinalize(g) ==
    /\ g \in DOMAIN gens
    /\ gens[g].state = "suspended"
    /\ ~gens[g].held
    /\ gens' = [gens EXCEPT ![g].state = "closed"]
    /\ gen_log' = IF gens[g].style = "finally"
                  THEN Append(gen_log, Event("teardown", g))
                  ELSE gen_log
    /\ UNCHANGED <<othersGen, gen_pc>>

NextGen ==
    \/ \E kind \in {"sync", "async"}, style \in {"plain", "finally"} : GenResolve(kind, style)
    \/ GenResolveReturn
    \/ \E raises \in BOOLEAN : GenHandler(raises)
    \/ \E g \in 1..MaxResolves : GenFinalize(g)

SpecGen == InitApp /\ [][NextGen]_vars

GenHas(e, g) == \E j \in DOMAIN gen_log : gen_log[j] = Event(e, g)

\* C29: of a generator-style provider only the setup half is evaluated, once
\* per request, up to the first yield; the teardown code after the yield is
\* never executed, whether the handler returns or raises.
C29_OnlySetupNeverTeardown ==
    \A g \in DOMAIN gens :
        /\ gens[g].advanced = 1
        /\ Cardinality({j \in DOMAIN gen_log : gen_log[j] = Event("setup", g)}) = 1
        /\ ~GenHas("teardown", g)

\* resolve advances each generator once and never resumes it; teardown
\* statements that are not in a finally clause never run
SetupOnceAndNeverResumed ==
    \A g \in DOMAIN gens :
        /\ gens[g].advanced = 1
        /\ Cardinality({j \in DOMAIN gen_log : gen_log[j] = Event("setup", g)}) = 1
        /\ gens[g].style = "plain" => ~GenHas("teardown", g)
        /\ gens[g].held => gens[g].state = "suspended"

\* the finally clause of a provider ran before the handler was called
TeardownBeforeHandler ==
    /\ Len(gens) = 1 /\ gens[1].kind = "sync" /\ gens[1].style = "finally"
    /\ gen_log = <<Event("setup", 1), Event("teardown", 1), Event("handler", 1)>>

(***************************************************************************)
(* RateLimitMiddleware                                                     *)
(***************************************************************************)
\* _clean_old_requests: the timestamps later than current_time - window_seconds
Cleaned(reqs, client_ip, current_time) ==
    IF client_ip \in DOMAIN reqs
    THEN LET Recent(req_time) == req_time > current_time - window_seconds
         IN  SelectSeq(reqs[client_ip], Recent)
    ELSE <<>>

\* a limiter that lets one request more through
OverLimitOneLater(n) == n > max_requests

\* line 70: len(self.requests[client_ip]) >= self.max_requests
OverLimit(n) == n >= max_requests

\* __call__ up to "await call_next(request)", lines 59-81, which has no await
\* before it: the 429, or the timestamp recorded and call_next called
RateCall(t, client_ip) ==
    /\ rl_tasks[t].pc \in {"idle", "done"}
    /\ LET kept == Cleaned(rl_requests, client_ip, now)
       IN  IF OverLimit(Len(kept))
           THEN /\ rl_requests' = DictSet(rl_requests, client_ip, kept)
                /\ rl_tasks' = [rl_tasks EXCEPT ![t] =
                       [pc |-> "done", client |-> client_ip, status |-> 429,
                        recorded |-> FALSE, seen |-> Len(kept)]]
                /\ UNCHANGED forwarded
           ELSE /\ rl_requests' = DictSet(rl_requests, client_ip, Append(kept, now))
                /\ rl_tasks' = [rl_tasks EXCEPT ![t] =
                       [pc |-> "next", client |-> client_ip, status |-> 0,
                        recorded |-> TRUE, seen |-> Len(kept)]]
                /\ forwarded' = [forwarded EXCEPT ![client_ip][now] = @ + 1]
    /\ UNCHANGED <<othersRate, now>>

\* call_next has returned, lines 83-95: the response goes back with the rate
\* limit headers (not modelled: they do not change what is forwarded)
RateReturn(t) ==
    /\ rl_tasks[t].pc = "next"
    /\ rl_tasks' = [rl_tasks EXCEPT ![t].pc = "done", ![t].status = 200]
    /\ UNCHANGED <<othersRate, rl_requests, now, forwarded>>

\* time passes
Tick ==
    /\ now < MaxTime
    /\ now' = now + 1
    /\ UNCHANGED <<othersRate, rl_requests, rl_tasks, forwarded>>

NextRate ==
    \/ \E t \in RateTasks, c \in ClientKeys : RateCall(t, c)
    \/ \E t \in RateTasks : RateReturn(t)
    \/ Tick

SpecRate == InitApp /\ [][NextRate]_vars

\* how many requests of client c went on to call_next at a time in from..to
ForwardedIn(c, from, to) ==
    LET ts == {x \in 0..MaxTime : from <= x /\ x <= to}
        RECURSIVE Sum(_)
        Sum(S) == IF S = {} THEN 0
                  ELSE LET x == CHOOSE x \in S : TRUE IN forwarded[c][x] + Sum(S \ {x})
    IN  Sum(ts)

\* C30: for every interleaving of concurrent requests, at most max_requests
\* requests of one client key go on to call_next within any window of
\* window_seconds; a request that arrives while max_requests timestamps of the
\* client lie inside the window is answered 429 without call_next being
\* called and without being recorded.
C30_AtMostMaxRequestsPerWindow ==
    /\ \A c \in ClientKeys, end \in 0..MaxTime :
          ForwardedIn(c, end - window_seconds + 1, end) <= max_requests
    /\ \A c \in DOMAIN rl_requests :
          /\ Len(rl_requests[c]) <= max_requests
          /\ \A j \in DOMAIN rl_requests[c] : forwarded[c][rl_requests[c][j]] >= 1
    /\ \A t \in RateTasks :
          /\ rl_tasks[t].status = 429 <=>
                (rl_tasks[t].pc = "done" /\ rl_tasks[t].seen >= max_requests)
          /\ rl_tasks[t].status = 429 => ~rl_tasks[t].recorded
          /\ rl_tasks[t].pc = "next" => rl_tasks[t].recorded
          /\ rl_tasks[t].recorded => ForwardedIn(rl_tasks[t].client, 0, MaxTime) >= 1

\* two requests of client "a" are inside call_next, a third of the same
\* client was answered 429 meanwhile -- seen in the task whose slot was free --
\* and a request of client "b" at the same time would still go through
C30_Witness ==
    /\ rl_tasks[1].pc = "next" /\ rl_tasks[1].client = "a"
    /\ rl_tasks[2].status = 429 /\ rl_tasks[2].client = "a"
    /\ Len(rl_requests["a"]) = max_requests
    /\ ForwardedIn("a", now - window_seconds + 1, now) = max_requests

(***************************************************************************)
(* Task queue: QueueManager.task, Worker._process_message and the Redis    *)
(* backend's consume loop, run by two worker loops on one queue.  The      *)
(* delayed set is a sorted set: one score per serialized message.          *)
(***************************************************************************)
DueMembers(delayed, current_time) == {d \in delayed : d.score <= current_time}

RECURSIVE ZRangeByScore(_)
ZRangeByScore(due) ==
    IF due = {} THEN <<>>
    ELSE LET first == CHOOSE d \in due :
                          \A e \in due : d.score < e.score
                                         \/ (d.score = e.score
                                             /\ d.m.retries <= e.m.retries)
         IN <<first.m>> \o ZRangeByScore(due \ {first})

ZAdd(delayed, message, score) ==
    {d \in delayed : d.m # message} \cup {[m |-> message, score |-> score]}

\* QueueManager.task's wrapper: publish the task message with retries 0.
PublishTask(task_name) ==
    /\ task_name \notin redis.published
    /\ redis' = [redis EXCEPT !.queue = Append(@, [task |-> task_name, retries |-> 0]),
                              !.published = @ \cup {task_name}]
    /\ UNCHANGED othersRedis

\* consume: await self._process_delayed_messages(queue_name), its first await.
ProcessDelayedRead(l) ==
    /\ redis.loops[l].pc = "scan"
    /\ LET messages == ZRangeByScore(DueMembers(redis.delayed, redis.time))
       IN redis' = [redis EXCEPT !.loops[l].batch = messages,
                                 !.loops[l].pc = IF messages = <<>> THEN "blpop"
                                                 ELSE "rpush"]
    /\ UNCHANGED othersRedis

ProcessDelayedRpush(l) ==
    /\ redis.loops[l].pc = "rpush"
    /\ LET message_data == Head(redis.loops[l].batch)
       IN redis' = [redis EXCEPT !.queue = Append(@, message_data),
                                 !.moved[message_data.retries] = @ + 1,
                                 !.loops[l].pc = "zrem"]
    /\ UNCHANGED othersRedis

ProcessDelayedZrem(l) ==
    /\ redis.loops[l].pc = "zrem"
    /\ LET message_data == Head(redis.loops[l].batch)
           rest == Tail(redis.loops[l].batch)
       IN redis' = [redis EXCEPT !.delayed = {d \in @ : d.m # message_data},
                                 !.loops[l].batch = rest,
                                 !.loops[l].pc = IF rest = <<>> THEN "blpop"
                                                 ELSE "rpush"]
    /\ UNCHANGED othersRedis

\* consume: result = await self.client.blpop(queue_name, timeout=1)
Blpop(l) ==
    /\ redis.loops[l].pc = "blpop"
    /\ redis' = IF redis.queue = <<>>
                THEN [redis EXCEPT !.loops[l].pc = "scan"]
                ELSE [redis EXCEPT !.queue = Tail(@),
                                   !.loops[l].message = Head(redis.queue),
                                   !.loops[l].pc = "callback"]
    /\ UNCHANGED othersRedis

RetriesLeft(retries) == retries < max_retries

\* Worker._process_message(message); fails says whether the task function raises.
ProcessMessage(l, fails) ==
    /\ redis.loops[l].pc = "callback"
    /\ LET message == redis.loops[l].message
           retries == message.retries
           done == [redis EXCEPT !.loops[l] = IdleLoop]
       IN redis' =
            IF message.task \notin Registered
            THEN done
            ELSE LET ran == [done EXCEPT !.executed[message.task] = @ + 1]
                     again == [message EXCEPT !.retries = retries + 1]
                     delay == retry_delay * (retries + 1)
                 IN IF fails /\ RetriesLeft(retries)
                    THEN IF delay # 0
                         THEN [ran EXCEPT !.delayed = ZAdd(@, again, redis.time + delay),
                                          !.zadded[retries + 1] = @ + 1]
                         ELSE [ran EXCEPT !.queue = Append(@, again)]
                    ELSE ran
    /\ UNCHANGED othersRedis

LoopTimePasses ==
    /\ redis.time < MaxLoopTime
    /\ redis' = [redis EXCEPT !.time = @ + 1]
    /\ UNCHANGED othersRedis

NextQueue ==
    \/ \E task_name \in TaskNames : PublishTask(task_name)
    \/ \E l \in WorkerLoops : ProcessDelayedRead(l)
    \/ \E l \in WorkerLoops : ProcessDelayedRpush(l)
    \/ \E l \in WorkerLoops : ProcessDelayedZrem(l)
    \/ \E l \in WorkerLoops : Blpop(l)
    \/ \E l \in WorkerLoops, fails \in BOOLEAN : ProcessMessage(l, fails)
    \/ LoopTimePasses

SpecQueue == InitApp /\ [][NextQueue]_vars

\* Nothing is on its way: the delayed set is empty and no loop holds messages.
QueueQuiet ==
    /\ redis.delayed = {}
    /\ \A l \in WorkerLoops : redis.loops[l].batch = <<>>

\* C32: each delayed message whose due time has passed is moved to the main
\* queue exactly once: never more often than it was put in the delayed set,
\* and as often once nothing is left in the delayed set or in a loop's hands.
C32_DueMessageMovedExactlyOnce ==
    \A r \in 0..(max_retries + 1) :
        /\ redis.moved[r] <= redis.zadded[r]
        /\ (QueueQuiet => redis.moved[r] = redis.zadded[r])

\* With the reads of the two loops apart the move is exact: a loop that read
\* nothing another loop holds never pushes a message twice.
MovedTwice == \E r \in 0..(max_retries + 1) : redis.moved[r] > redis.zadded[r]

\* C31: a task that keeps failing is executed at most max_retries + 1 times,
\* a message of retries = max_retries is never republished, and a message
\* naming an unregistered task is neither executed nor republished.
C31_AtMostMaxRetriesPlusOneExecutions ==
    /\ redis.executed["t"] <= max_retries + 1
    /\ redis.zadded[max_retries + 1] = 0
    /\ redis.executed["u"] = 0
    /\ \A l \in WorkerLoops : redis.loops[l].message.task = "u" =>
           redis.loops[l].message.retries = 0

\* What _process_message itself guarantees: as long as the backend delivered
\* no message twice, the task ran at most max_retries + 1 times.
AtMostMaxRetriesPlusOneUnlessMovedTwice ==
    MovedTwice \/ C31_AtMostMaxRetriesPlusOneExecutions

NeverRepublishedAtMaxRetries == redis.zadded[max_retries + 1] = 0

(***************************************************************************)
(* WriteBehind: set and flush, each suspended at its awaits.  written is   *)
(* what the writers were given last, per key.                              *)
(***************************************************************************)
FlushRunning == wbehind.flush.pc # "idle"

\* WriteBehind.set up to "await self.cache.set(key, value, ttl=cache_ttl)".
WbSetCache(key) ==
    /\ wbehind.call.pc = "idle"
    /\ wbehind.sets < MaxSets
    /\ wbehind' = [wbehind EXCEPT !.cache[key] = wbehind.sets + 1,
                                  !.sets = @ + 1,
                                  !.call = [pc |-> "mark", key |-> key],
                                  !.overlapped = @ \/ FlushRunning]
    /\ UNCHANGED othersWbehind

\* WriteBehind.set resumed: self._dirty_keys.add(key).
WbSetMark ==
    /\ wbehind.call.pc = "mark"
    /\ wbehind' = [wbehind EXCEPT !._dirty_keys = @ \cup {wbehind.call.key},
                                  !.call = [pc |-> "idle", key |-> ""],
                                  !.overlapped = @ \/ FlushRunning]
    /\ UNCHANGED othersWbehind

IdleFlush == [pc |-> "idle", todo |-> {}, size |-> 0, dirty_data |-> NoneOfKeys]

\* WriteBehind.flush up to its first await; nothing to do when no key is dirty.
WbFlushBegin ==
    /\ wbehind.flush.pc = "idle"
    /\ wbehind._dirty_keys # {}
    /\ wbehind' = [wbehind EXCEPT !.flush = [pc |-> "get",
                                             todo |-> wbehind._dirty_keys,
                                             size |-> Cardinality(wbehind._dirty_keys),
                                             dirty_data |-> NoneOfKeys],
                                  !.overlapped = @ \/ wbehind.call.pc # "idle"]
    /\ UNCHANGED othersWbehind

\* One turn of "for key in self._dirty_keys: value = await self.cache.get(key)":
\* the set iterator raises RuntimeError when the set changed size; after the
\* last key, the writer is awaited, or the keys are cleared when nothing is
\* to be written.
WbFlushGet ==
    /\ wbehind.flush.pc = "get"
    /\ IF Cardinality(wbehind._dirty_keys) # wbehind.flush.size
       THEN wbehind' = [wbehind EXCEPT !.flush = IdleFlush, !.raised = TRUE]
       ELSE \E key \in wbehind.flush.todo :
              LET data == [wbehind.flush.dirty_data EXCEPT ![key] = wbehind.cache[key]]
                  rest == wbehind.flush.todo \ {key}
              IN wbehind' =
                   IF rest # {}
                   THEN [wbehind EXCEPT !.flush.todo = rest, !.flush.dirty_data = data]
                   ELSE IF data = NoneOfKeys
                        THEN [wbehind EXCEPT !.flush = IdleFlush,
                                             !._dirty_keys = {}]
                        ELSE [wbehind EXCEPT !.flush.todo = {},
                                             !.flush.dirty_data = data,
                                             !.flush.pc = "writer",
                                             !.written = [k \in CacheKeys |->
                                                 IF data[k] # 0 THEN data[k] ELSE @[k]]]
    /\ UNCHANGED othersWbehind

\* The writer returns (or raises, and flush with it: the keys stay dirty).
WbFlushWritten(ok) ==
    /\ wbehind.flush.pc = "writer"
    /\ wbehind' = IF ok
                  THEN [wbehind EXCEPT !.flush = IdleFlush,
                                       !._dirty_keys = {}]
                  ELSE [wbehind EXCEPT !.flush = IdleFlush, !.raised = TRUE]
    /\ UNCHANGED othersWbehind

NextWbehind ==
    \/ \E key \in CacheKeys : WbSetCache(key)
    \/ WbSetMark
    \/ WbFlushBegin
    \/ WbFlushGet
    \/ \E ok \in BOOLEAN : WbFlushWritten(ok)

SpecWbehind == InitApp /\ [][NextWbehind]_vars

NoCallRunning == wbehind.flush.pc = "idle" /\ wbehind.call.pc = "idle"

\* C33: no written key is lost: whenever no set and no flush is in progress,
\* every key whose cached value no writer was given is in the dirty-key set,
\* so that a later flush hands it over.
C33_WrittenKeysDirtyUntilHanded ==
    NoCallRunning =>
        \A k \in CacheKeys :
            wbehind.cache[k] # wbehind.written[k] => k \in wbehind._dirty_keys

\* When no set ran while a flush was in progress, no key is lost.
DirtyUntilHandedWhenCallsApart ==
    wbehind.overlapped \/ C33_WrittenKeysDirtyUntilHanded

\* A set during a flush changed the size of the set being iterated.
FlushRaisedRuntimeError == wbehind.raised /\ wbehind.overlapped

(***************************************************************************)
(* Application.handle_websocket and the WebSocket object the handler gets. *)
(***************************************************************************)
CloseMessage(code) == [type |-> "websocket.close", code |-> code]

\* handle_websocket up to the handler's first step.
WsHandle(path) ==
    /\ wsock.pc = "idle"
    /\ wsock' = IF path \notin WsRoutes
                THEN [wsock EXCEPT !.pc = "done", !.path = path,
                                   !.sent = Append(@, CloseMessage(1000))]
                ELSE [wsock EXCEPT !.pc = "handler", !.path = path,
                                   !.client_state = "connecting",
                                   !.handler_ran = TRUE]
    /\ UNCHANGED othersWsock

\* The handler awaits websocket.accept().
WsAccept ==
    /\ wsock.pc = "handler"
    /\ Len(wsock.sent) < MaxWsSends
    /\ wsock' = [wsock EXCEPT !.sent = Append(@, [type |-> "websocket.accept", code |-> 0]),
                              !.client_state = "connected"]
    /\ UNCHANGED othersWsock

\* WebSocket.close(code): a close message only in state "connected".
WsClose(ws, code) ==
    IF ws.client_state = "connected"
    THEN [ws EXCEPT !.sent = Append(@, CloseMessage(code)),
                    !.client_state = "disconnected"]
    ELSE ws

\* The handler awaits websocket.send_text(data): WebSocketException when the
\* state is not "connected", which the handler lets through.
WsSendText ==
    /\ wsock.pc = "handler"
    /\ Len(wsock.sent) < MaxWsSends
    /\ wsock' = IF wsock.client_state = "connected"
                THEN [wsock EXCEPT !.sent = Append(@, [type |-> "websocket.send", code |-> 0])]
                ELSE [WsClose(wsock, 1011) EXCEPT !.pc = "done", !.raised = TRUE,
                                                  !.state_at_raise = wsock.client_state]
    /\ UNCHANGED othersWsock

\* The handler awaits websocket.close().
WsHandlerCloses ==
    /\ wsock.pc = "handler"
    /\ wsock' = WsClose(wsock, 1000)
    /\ UNCHANGED othersWsock

\* The handler returns, or raises an Exception and the except clause of
\* handle_websocket awaits websocket.close(code=1011); "except Exception" lets
\* a BaseException such as asyncio.CancelledError through.
WsHandlerEnds(raises) ==
    /\ wsock.pc = "handler"
    /\ wsock' = CASE raises = "Exception" ->
                       [WsClose(wsock, 1011) EXCEPT !.pc = "done", !.raised = TRUE,
                                                    !.state_at_raise = wsock.client_state]
                  [] raises = "CancelledError" ->
                       [wsock EXCEPT !.pc = "done", !.escaped = TRUE]
                  [] OTHER -> [wsock EXCEPT !.pc = "done"]
    /\ UNCHANGED othersWsock

NextWsock ==
    \/ \E path \in WsPaths : WsHandle(path)
    \/ WsAccept
    \/ WsSendText
    \/ WsHandlerCloses
    \/ \E raises \in {"", "Exception", "CancelledError"} : WsHandlerEnds(raises)

SpecWsock == InitApp /\ [][NextWsock]_vars

Sent1011 == \E i \in 1..Len(wsock.sent) : wsock.sent[i] = CloseMessage(1011)

\* C34: once handle_websocket has returned, a handler that raised an Exception
\* has had a close with code 1011 sent, whatever it did before, and the
\* exception did not leave handle_websocket; and
\* without a matching route a close was sent and no handler ran.
C34_HandlerErrorClosesWith1011 ==
    wsock.pc = "done" =>
        /\ wsock.raised => Sent1011
        /\ wsock.raised => ~wsock.escaped
        /\ wsock.path \notin WsRoutes =>
               /\ wsock.sent = <<CloseMessage(1000)>>
               /\ ~wsock.handler_ran

\* The close with 1011 is sent exactly when the handler raised while the
\* connection was accepted and not yet closed.
Sent1011WhenRaisedConnected ==
    wsock.pc = "done" =>
        /\ Sent1011 <=> (wsock.raised /\ wsock.state_at_raise = "connected")
        /\ wsock.raised => ~wsock.escaped
        /\ wsock.path \notin WsRoutes =>
               /\ wsock.sent = <<CloseMessage(1000)>>
               /\ ~wsock.handler_ran

RaisedBeforeAccept ==
    wsock.pc = "done" /\ wsock.raised /\ wsock.state_at_raise = "connecting"

(***************************************************************************)
(* WebSocketManager: connect, disconnect, join_room, leave_room, and one   *)
(* broadcast suspended at each send while the other calls go on.           *)
(***************************************************************************)
LeaveRoomKeepsEmptyRooms(rooms, client_id, room) ==
    IF room \in DOMAIN rooms
    THEN [k \in DOMAIN rooms |-> IF k = room THEN rooms[k] \ {client_id} ELSE rooms[k]]
    ELSE rooms

\* leave_room on the dict: discard, then delete the room when it is empty.
LeaveRoomOf(rooms, client_id, room) ==
    IF room \in DOMAIN rooms
    THEN IF rooms[room] \ {client_id} = {}
         THEN [k \in DOMAIN rooms \ {room} |-> rooms[k]]
         ELSE [k \in DOMAIN rooms |-> IF k = room THEN rooms[k] \ {client_id} ELSE rooms[k]]
    ELSE rooms

\* disconnect's loop "for room in list(self.rooms.keys())" over the rooms left.
RECURSIVE LeaveAll(_, _, _)
LeaveAll(rooms, client_id, keys) ==
    IF keys = {} THEN rooms
    ELSE LET room == CHOOSE k \in keys : TRUE
         IN LeaveAll(LeaveRoomOf(rooms, client_id, room), client_id, keys \ {room})

TargetSet(m, room) ==
    IF room # "" THEN (IF room \in DOMAIN m.rooms THEN m.rooms[room] ELSE {})
    ELSE m.connections

\* What a call made while the broadcast is suspended leaves of its record:
\* the clients that were in the target set all along.
Stayed(m) ==
    IF wsm.bc.pc = "sending"
    THEN [m EXCEPT !.bc.stayed = @ \cap TargetSet(m, wsm.bc.room) \cap m.connections]
    ELSE m

connect(client_id) ==
    /\ wsm' = Stayed([wsm EXCEPT !.connections = @ \cup {client_id},
                                 !.last = [op |-> "connect", client |-> ""]])
    /\ UNCHANGED othersWsm

disconnect(client_id) ==
    /\ wsm' = Stayed([wsm EXCEPT
                  !.rooms = LeaveAll(@, client_id, DOMAIN wsm.rooms),
                  !.connections = @ \ {client_id},
                  !.last = [op |-> "disconnect", client |-> client_id],
                  !.was_member = client_id \in wsm.connections
                                 /\ \E k \in DOMAIN wsm.rooms : wsm.rooms[k] = {client_id}])
    /\ UNCHANGED othersWsm

join_room(client_id, room) ==
    /\ wsm' = Stayed([wsm EXCEPT
                  !.rooms = [k \in DOMAIN wsm.rooms \cup {room} |->
                                IF k = room
                                THEN (IF k \in DOMAIN wsm.rooms THEN wsm.rooms[k] ELSE {})
                                     \cup {client_id}
                                ELSE wsm.rooms[k]],
                  !.last = [op |-> "join_room", client |-> ""]])
    /\ UNCHANGED othersWsm

leave_room(client_id, room) ==
    /\ wsm' = Stayed([wsm EXCEPT !.rooms = LeaveRoomOf(@, client_id, room),
                                 !.last = [op |-> "leave_room", client |-> ""]])
    /\ UNCHANGED othersWsm

\* broadcast up to its first send: the loop is over the live set (or dict).
BroadcastBegin(room, exclude) ==
    /\ wsm.bc.pc = "idle"
    /\ LET target == TargetSet(wsm, room)
       IN wsm' = [wsm EXCEPT !.bc = [IdleBroadcast EXCEPT
                                        !.pc = IF target = {} THEN "done" ELSE "sending",
                                        !.room = room, !.exclude = exclude,
                                        !.todo = target, !.size = Cardinality(target),
                                        !.stayed = target \cap wsm.connections]]
    /\ UNCHANGED othersWsm

\* One turn of the loop: the iterator raises RuntimeError when the set or dict
\* changed size; send_message skips a client not in connections; an exception
\* of send_text leaves broadcast.
BroadcastSend(ok) ==
    /\ wsm.bc.pc = "sending"
    /\ LET target == TargetSet(wsm, wsm.bc.room)
           left == wsm.bc.todo \cap target
       IN IF Cardinality(target) # wsm.bc.size
          THEN wsm' = [wsm EXCEPT !.bc.pc = "done", !.bc.raised = TRUE]
          ELSE IF left = {}
          THEN wsm' = [wsm EXCEPT !.bc.pc = "done"]
          ELSE \E client_id \in left :
                 wsm' = IF client_id = wsm.bc.exclude \/ client_id \notin wsm.connections
                        THEN [wsm EXCEPT !.bc.todo = @ \ {client_id}]
                        ELSE IF ok
                        THEN [wsm EXCEPT !.bc.todo = @ \ {client_id},
                                         !.bc.twice = @ \/ client_id \in wsm.bc.delivered,
                                         !.bc.delivered = @ \cup {client_id}]
                        ELSE [wsm EXCEPT !.bc.pc = "done", !.bc.raised = TRUE,
                                         !.bc.stayed = @ \ {client_id}]
    /\ UNCHANGED othersWsm

NextWsm ==
    \/ \E c \in WsClients : connect(c)
    \/ \E c \in WsClients : disconnect(c)
    \/ \E c \in WsClients, room \in WsRooms : join_room(c, room)
    \/ \E c \in WsClients, room \in WsRooms : leave_room(c, room)
    \/ \E room \in {"", "r1"}, exclude \in {"", "a"} : BroadcastBegin(room, exclude)
    \/ \E ok \in BOOLEAN : BroadcastSend(ok)

SpecWsm == InitApp /\ [][NextWsm]_vars

\* C35: no room in rooms is empty, and immediately after disconnect(c) the
\* client c is a member of no room and is not in connections.
C35_NoEmptyRoomAndDisconnectRemoves ==
    /\ \A room \in DOMAIN wsm.rooms : wsm.rooms[room] # {}
    /\ wsm.last.op = "disconnect" =>
           /\ wsm.last.client \notin wsm.connections
           /\ \A room \in DOMAIN wsm.rooms : wsm.last.client \notin wsm.rooms[room]

\* disconnect(c) has just removed a connected client that was alone in a room.
C35_Witness ==
    /\ wsm.last.op = "disconnect"
    /\ wsm.was_member
    /\ DOMAIN wsm.rooms # WsRooms

\* C36: when broadcast has ended, every client that was registered and in the
\* target set from its start to its end, other than exclude and other than a
\* recipient whose own send failed, got the message exactly once.
C36_BroadcastDeliversExactlyOnce ==
    wsm.bc.pc = "done" =>
        /\ ~wsm.bc.twice
        /\ \A c \in wsm.bc.stayed \ {wsm.bc.exclude} : c \in wsm.bc.delivered

\* Without a failed send and without a change of the target set's size during
\* the broadcast, every recipient got the message exactly once; nobody ever
\* gets it twice.
BroadcastDeliversWhenNothingRaised ==
    /\ ~wsm.bc.twice
    /\ (wsm.bc.pc = "done" /\ ~wsm.bc.raised) =>
           \A c \in wsm.bc.stayed \ {wsm.bc.exclude} : c \in wsm.bc.delivered

BroadcastDeliveredToTwo ==
    wsm.bc.pc = "done" /\ ~wsm.bc.raised /\ Cardinality(wsm.bc.delivered) >= 2

(***************************************************************************)
(* CORS end to end: an application whose only middleware is CORSMiddleware *)
(* handles one request.                                                    *)
(***************************************************************************)
CorsPath == <<"/", "u">>
CorsRequestPaths == {CorsPath, <<"/", "4">>}
CorsMethods == {"GET", "POST", "OPTIONS"}
CorsRouteMethods == {{"GET"}, {"POST"}, {"GET", "OPTIONS"}}
Origins == {"", "o1", "o2"}
AllowOrigins == {{"*"}, {"o1"}}

\* CORSMiddleware._is_origin_allowed behind "if origin and ..."
IsOriginAllowed(allow_origins, origin) ==
    origin # "" /\ ("*" \in allow_origins \/ origin \in allow_origins)

AccessControlHeaders(allow_origins, origin) ==
    [h \in {"Access-Control-Allow-Origin", "Access-Control-Allow-Methods",
            "Access-Control-Allow-Headers", "Access-Control-Max-Age"} |->
        IF h = "Access-Control-Allow-Origin"
        THEN (IF "*" \in allow_origins THEN "*" ELSE origin)
        ELSE IF h = "Access-Control-Max-Age" THEN "600" ELSE "list"]

\* The part of CORSMiddleware.__call__ after the response is there.
AddCorsHeaders(allow_origins, origin, resp) ==
    LET r == IF resp.t = "dict" THEN JSONResponse(resp.data, "", "success", 200, TRUE)
             ELSE resp
    IN IF IsOriginAllowed(allow_origins, origin)
       THEN [r EXCEPT !.headers = DictMerge(@, AccessControlHeaders(allow_origins, origin))]
       ELSE r

CorsAddRoute(methods) ==
    /\ cors.pc = "setup"
    /\ Len(cors.routes) < MaxRoutes
    /\ cors' = [cors EXCEPT !.routes = Append(@, Route(CorsPath, "h", methods))]
    /\ UNCHANGED othersCors

\* handle_http: the Request is made from the scope.
CorsReceive(allow_origins, method, path, origin) ==
    /\ cors.pc = "setup"
    /\ cors' = [cors EXCEPT !.pc = "received", !.allow_origins = allow_origins,
                            !.method = method, !.path = path, !.origin = origin]
    /\ UNCHANGED othersCors

\* handle_http: router.match, then the 404 or middleware_manager.execute.
CorsRoute ==
    /\ cors.pc = "received"
    /\ LET m == Match(cors.routes, cors.path, cors.method)
       IN cors' = IF m.kind = "none"
                  THEN [cors EXCEPT !.route_match = m, !.response = NotFound,
                                    !.pc = "send"]
                  ELSE [cors EXCEPT !.route_match = m, !.pc = "middleware"]
    /\ UNCHANGED othersCors

\* CORSMiddleware.__call__ up to call_next; a preflight is answered here.
CorsCall ==
    /\ cors.pc = "middleware"
    /\ cors' = IF cors.method = "OPTIONS"
               THEN [cors EXCEPT
                       !.response = AddCorsHeaders(cors.allow_origins, cors.origin,
                                       Obj("Response", 200, "", "", NoData, <<>>, TRUE, "")),
                       !.pc = "send"]
               ELSE [cors EXCEPT !.pc = "handler"]
    /\ UNCHANGED othersCors

\* The route handler, by way of call_next.
CorsHandler(result) ==
    /\ cors.pc = "handler"
    /\ cors' = [cors EXCEPT !.handler_invoked = TRUE, !.ret = result, !.pc = "resume"]
    /\ UNCHANGED othersCors

\* CORSMiddleware.__call__ after call_next; an exception of the handler goes
\* through it to handle_http's except clause.
CorsResume ==
    /\ cors.pc = "resume"
    /\ cors' = [cors EXCEPT
                  !.response = IF cors.ret.t = "exc" THEN DefaultResponse(cors.ret)
                               ELSE AddCorsHeaders(cors.allow_origins, cors.origin, cors.ret),
                  !.pc = "send"]
    /\ UNCHANGED othersCors

\* handle_http: await response(send)
CorsSend ==
    /\ cors.pc = "send"
    /\ cors' = [cors EXCEPT !.sent = <<StartMessage(cors.response)>>, !.pc = "done"]
    /\ UNCHANGED othersCors

CorsResults ==
    {Dict(NoData, TRUE), JSONResponse(NoData, "", "success", 200, TRUE),
     Exc("ValueError", 0, "bad", TRUE), HTTPException(403, "forbidden", TRUE)}

NextCors ==
    \/ \E methods \in CorsRouteMethods : CorsAddRoute(methods)
    \/ \E allow_origins \in AllowOrigins, method \in CorsMethods,
          path \in CorsRequestPaths, origin \in Origins :
            CorsReceive(allow_origins, method, path, origin)
    \/ CorsRoute
    \/ CorsCall
    \/ \E result \in CorsResults : CorsHandler(result)
    \/ CorsResume
    \/ CorsSend

SpecCors == InitApp /\ [][NextCors]_vars

HasAccessControl(message) ==
    /\ "Access-Control-Allow-Origin" \in DOMAIN message.headers
    /\ "Access-Control-Allow-Methods" \in DOMAIN message.headers

PathHasRoute == \E i \in 1..Len(cors.routes) : cors.routes[i].path = cors.path

CorsAnswered == cors.pc = "done" /\ IsOriginAllowed(cors.allow_origins, cors.origin)

\* C37: a response to a request with an allowed Origin carries the
\* Access-Control-* headers; when the request is an OPTIONS for a path that
\* has a route, whatever the route's methods, the answer is 200 and the route
\* handler was not invoked.
C37_PreflightAnswered200WithCorsHeaders ==
    CorsAnswered =>
        /\ HasAccessControl(cors.sent[1])
        /\ (cors.method = "OPTIONS" /\ PathHasRoute) =>
               /\ cors.sent[1].status = 200
               /\ ~cors.handler_invoked

\* What the code gives: the headers are there exactly when the request was
\* routed and no exception left the middleware; a preflight is answered 200
\* only when a route of the path lists OPTIONS.
CorsHeadersWhenRoutedAndNothingRaised ==
    CorsAnswered =>
        /\ HasAccessControl(cors.sent[1]) <=>
               (cors.route_match.kind = "match" /\ cors.ret.t # "exc")
        /\ cors.method = "OPTIONS" => ~cors.handler_invoked
        /\ (cors.method = "OPTIONS" /\ cors.route_match.kind = "match") =>
               cors.sent[1].status = 200

PreflightOfRoutedPathAnswered404 ==
    /\ CorsAnswered
    /\ cors.method = "OPTIONS"
    /\ PathHasRoute
    /\ cors.sent[1].status = 404

(***************************************************************************)
(* EnhancedJWTHandler: tokens made, revoked, decoded and refreshed.        *)
(***************************************************************************)
\* JWTHandler.encode: exp is put in the payload, then the signature.
Encode(type, time, expires_in) == [type |-> type, exp |-> time + expires_in, sig |-> "good"]

IsRevokedNever(blacklist, token) == FALSE

IsRevoked(blacklist, token) == token \in blacklist

\* JWTHandler.decode: "" when the payload is returned, else the message of
\* the UnauthorizedException.
BaseDecode(token, time) ==
    IF token.sig # "good" THEN "Invalid token signature"
    ELSE IF token.exp < time THEN "Token expired"
    ELSE ""

\* EnhancedJWTHandler.decode
DecodeRaises(blacklist, token, time) ==
    IF IsRevoked(blacklist, token) THEN "Token has been revoked" ELSE BaseDecode(token, time)

\* EnhancedJWTHandler.refresh_access_token
RefreshRaises(blacklist, token, time) ==
    IF IsRevoked(blacklist, token) THEN "Token has been revoked"
    ELSE IF DecodeRaises(blacklist, token, time) # "" THEN DecodeRaises(blacklist, token, time)
    ELSE IF token.type # "refresh" THEN "Invalid token type"
    ELSE ""

\* encode, create_access_token, create_refresh_token
CreateToken(type) ==
    /\ Cardinality(jwt.issued) < MaxTokens
    /\ LET token == Encode(type, jwt.time, 1)
       IN jwt' = [jwt EXCEPT !.issued = @ \cup {token},
                             !.last = [op |-> "create", token |-> NoToken,
                                       raised |-> "", out |-> token]]
    /\ UNCHANGED othersJwt

revoke_token(token) ==
    /\ jwt' = [jwt EXCEPT !.blacklist = @ \cup {token},
                          !.revoked = @ \cup {token},
                          !.last = [op |-> "revoke_token", token |-> token,
                                    raised |-> "", out |-> NoToken]]
    /\ UNCHANGED othersJwt

decode(token) ==
    /\ jwt' = [jwt EXCEPT !.last = [op |-> "decode", token |-> token,
                                    raised |-> DecodeRaises(jwt.blacklist, token, jwt.time),
                                    out |-> NoToken]]
    /\ UNCHANGED othersJwt

refresh_access_token(refresh_token) ==
    /\ Cardinality(jwt.issued) < MaxTokens + 1
    /\ LET raised == RefreshRaises(jwt.blacklist, refresh_token, jwt.time)
           new == Encode("access", jwt.time, 1)
       IN jwt' = [jwt EXCEPT
                    !.issued = IF raised = "" THEN @ \cup {new} ELSE @,
                    !.last = [op |-> "refresh_access_token", token |-> refresh_token,
                              raised |-> raised,
                              out |-> IF raised = "" THEN new ELSE NoToken]]
    /\ UNCHANGED othersJwt

JwtTimePasses ==
    /\ jwt.time < MaxJwtTime
    /\ jwt' = [jwt EXCEPT !.time = @ + 1]
    /\ UNCHANGED othersJwt

\* The tokens a caller can present: those made so far, and one with a
\* signature of another key.
Presentable == jwt.issued \cup {[type |-> "refresh", exp |-> MaxJwtTime + 2, sig |-> "bad"]}

NextJwt ==
    \/ \E type \in {"", "access", "refresh"} : CreateToken(type)
    \/ \E token \in Presentable : revoke_token(token)
    \/ \E token \in Presentable : decode(token)
    \/ \E token \in Presentable : refresh_access_token(token)
    \/ JwtTimePasses

SpecJwt == InitApp /\ [][NextJwt]_vars

\* C38: a decode or refresh_access_token of a token that was ever revoked
\* raises UnauthorizedException, every token ever revoked is still in the
\* blacklist, and refresh_access_token returns a new access token only for a
\* token of type 'refresh'.
C38_RevocationPermanentAndComplete ==
    /\ jwt.revoked \subseteq jwt.blacklist
    /\ (jwt.last.op \in {"decode", "refresh_access_token"}
        /\ jwt.last.token \in jwt.revoked) =>
           jwt.last.raised # "" /\ jwt.last.out = NoToken
    /\ (jwt.last.op = "refresh_access_token" /\ jwt.last.token.type # "refresh") =>
           jwt.last.raised # "" /\ jwt.last.out = NoToken

\* A revoked refresh token, well signed and not expired, was refused.
C38_Witness ==
    /\ jwt.last.op = "refresh_access_token"
    /\ jwt.last.token \in jwt.revoked
    /\ jwt.last.token.type = "refresh"
    /\ BaseDecode(jwt.last.token, jwt.time) = ""
    /\ jwt.last.raised = "Token has been revoked"

(***************************************************************************)
(* MigrationManager: migrate and rollback over the migration files 1 .. N, *)
(* the version of a file being its number.                                 *)
(***************************************************************************)
MigrationFiles == 1..MaxMigrations

\* "SELECT version ... ORDER BY version", and sorted(os.listdir(...))
RECURSIVE Ascending(_)
Ascending(versions) ==
    IF versions = {} THEN <<>>
    ELSE LET least == CHOOSE v \in versions : \A w \in versions : v <= w
         IN <<least>> \o Ascending(versions \ {least})

Reversed(seq) == [i \in 1..Len(seq) |-> seq[Len(seq) + 1 - i]]

LastStepsClamped(applied, steps) ==
    SubSeq(applied, IF steps >= Len(applied) THEN 1 ELSE Len(applied) - steps + 1,
           Len(applied))

\* applied[-steps:] as Python slices: -0 is 0, the start of the list.
LastSteps(applied, steps) ==
    IF steps = 0 THEN applied
    ELSE SubSeq(applied, IF steps >= Len(applied) THEN 1 ELSE Len(applied) - steps + 1,
                Len(applied))

\* The loop of migrate or rollback over todo: each version is done inside a
\* transaction; the one whose up() or down() raises is not done and ends the
\* loop; a version to roll back with no file is skipped.
RECURSIVE RunAll(_, _, _)
RunAll(todo, fails_at, done) ==
    IF todo = <<>> THEN [done |-> done, raised |-> FALSE]
    ELSE IF Head(todo) \notin MigrationFiles THEN RunAll(Tail(todo), fails_at, done)
    ELSE IF Head(todo) = fails_at THEN [done |-> done, raised |-> TRUE]
    ELSE RunAll(Tail(todo), fails_at, Append(done, Head(todo)))

migrate(fails_at) ==
    /\ LET pending == Ascending(MigrationFiles \ mig.applied)
           run == RunAll(pending, fails_at, <<>>)
       IN mig' = [applied |-> mig.applied \cup Range(run.done),
                  prev |-> mig.last,
                  last |-> [op |-> "migrate", steps |-> 0, count |-> Len(run.done),
                            raised |-> run.raised, done |-> run.done,
                            before |-> mig.applied]]
    /\ UNCHANGED othersMig

rollback(steps, fails_at) ==
    /\ LET to_rollback == LastSteps(Ascending(mig.applied), steps)
           run == RunAll(Reversed(to_rollback), fails_at, <<>>)
       IN mig' = [applied |-> mig.applied \ Range(run.done),
                  prev |-> mig.last,
                  last |-> [op |-> "rollback", steps |-> steps, count |-> Len(run.done),
                            raised |-> run.raised, done |-> run.done,
                            before |-> mig.applied]]
    /\ UNCHANGED othersMig

NextMig ==
    \/ \E fails_at \in 0..MaxMigrations : migrate(fails_at)
    \/ \E steps \in 0..MaxSteps, fails_at \in 0..MaxMigrations : rollback(steps, fails_at)

SpecMig == InitApp /\ [][NextMig]_vars

\* The n greatest versions of a set, greatest first.
Latest(versions, n) == Reversed(LastStepsClamped(Ascending(versions), n))

RolledBack(call) == call.op = "rollback" /\ ~call.raised

RollbackRevertsLatest(call, applied) ==
    /\ call.count = Len(call.done)
    /\ applied = call.before \ Range(call.done)
    /\ call.done = IF call.steps = 0 THEN <<>> ELSE Latest(call.before, call.steps)

\* A migrate that follows a rollback made when nothing was pending applies
\* what was reverted, ascending; a migrate after a migrate applies nothing.
MigrateReapplies ==
    (mig.last.op = "migrate" /\ ~mig.last.raised) =>
        /\ (RolledBack(mig.prev) /\ mig.last.before \cup Range(mig.prev.done) = MigrationFiles)
               => mig.last.done = Reversed(mig.prev.done)
        /\ (mig.prev.op = "migrate" /\ ~mig.prev.raised) => mig.last.count = 0

\* C39: rollback(steps) reverts at most steps migrations for every steps >= 0,
\* exactly the most recently applied ones in descending version order, and
\* returns their number; a following migrate() re-applies exactly those in
\* ascending order, and a second migrate() applies nothing.
C39_RollbackRevertsAtMostSteps ==
    /\ RolledBack(mig.last) =>
           /\ mig.last.count <= mig.last.steps
           /\ RollbackRevertsLatest(mig.last, mig.applied)
    /\ MigrateReapplies

\* For steps >= 1 the rollback is as said.
RollbackRevertsStepsWhenPositive ==
    /\ (RolledBack(mig.last) /\ mig.last.steps >= 1) =>
           /\ mig.last.count <= mig.last.steps
           /\ RollbackRevertsLatest(mig.last, mig.applied)
    /\ MigrateReapplies

RollbackZeroRevertedAll ==
    /\ RolledBack(mig.last)
    /\ mig.last.steps = 0
    /\ mig.last.count = MaxMigrations

(***************************************************************************)
(* Request.body() over a transport's message stream.                       *)
(***************************************************************************)
HttpRequest(chunk, more_body) == [type |-> "http.request", body |-> chunk, more_body |-> more_body]
HttpDisconnect == [type |-> "http.disconnect", body |-> "", more_body |-> FALSE]
TransportMessages == {HttpRequest("x", TRUE), HttpRequest("y", FALSE), HttpDisconnect}

\* What a transport gives: after the last part of the body, or after a
\* disconnect, nothing but disconnects.
TransportStreams ==
    {stream \in SeqsUpTo(TransportMessages, MaxMessages) :
        \A i, j \in 1..Len(stream) :
            (i < j /\ stream[i] # HttpRequest("x", TRUE)) => stream[j] = HttpDisconnect}

\* await self.receive()
ReceiveFrom(stream) == IF stream = <<>> THEN HttpDisconnect ELSE Head(stream)

\* Request(scope, receive)
MakeRequest(stream) ==
    /\ rbody.pc = "setup"
    /\ rbody' = [rbody EXCEPT !.pc = "idle", !.stream = stream]
    /\ UNCHANGED othersRbody

\* body() up to its first await, or to its return when _body is set.
BodyCall ==
    /\ rbody.pc \in {"idle", "returned"}
    /\ rbody.calls < 2
    /\ rbody' = IF rbody.body_set
                THEN [rbody EXCEPT !.pc = "returned", !.calls = @ + 1,
                                   !.cached_ok = rbody._body = rbody.returned,
                                   !.returned = rbody._body]
                ELSE [rbody EXCEPT !.pc = "reading", !.calls = @ + 1, !.body_parts = <<>>]
    /\ UNCHANGED othersRbody

\* "if message['type'] == 'http.request': ... if not more_body: break"
LeavesLoop(message) == message.type = "http.request" /\ ~message.more_body

\* One turn of the while loop: a message is received.
BodyReceive ==
    /\ rbody.pc = "reading"
    /\ LET message == ReceiveFrom(rbody.stream)
           parts == IF message.type = "http.request"
                    THEN Append(rbody.body_parts, message.body)
                    ELSE rbody.body_parts
           next == [rbody EXCEPT
                      !.stream = IF @ = <<>> THEN @ ELSE Tail(@),
                      !.body_parts = parts,
                      !.receive_calls = IF @ < MaxReceives THEN @ + 1 ELSE @,
                      !.spin = ~@]
       IN rbody' = IF LeavesLoop(message)
                   THEN [next EXCEPT !.pc = "returned", !.body_set = TRUE,
                                     !._body = parts, !.returned = parts]
                   ELSE next
    /\ UNCHANGED othersRbody

NextBody ==
    \/ \E stream \in TransportStreams : MakeRequest(stream)
    \/ BodyCall
    \/ BodyReceive

\* The event loop resumes body() each time the transport has given a message.
SpecBody == InitApp /\ [][NextBody]_vars /\ WF_vars(BodyReceive)

\* A second call returned what the first returned and received nothing.
CachedBodyReturnedWithoutReceive ==
    /\ rbody.cached_ok
    /\ rbody.pc = "returned" => rbody.body_set /\ rbody.returned = rbody._body

\* C40: body() terminates for every message stream, also when the client
\* disconnects before a final http.request; and once it has returned, a later
\* call returns the same bytes.
C40_BodyTerminates ==
    /\ [](rbody.cached_ok)
    /\ (rbody.pc = "reading") ~> (rbody.pc = "returned")

HasFinalRequest(stream) ==
    \E i \in 1..Len(stream) : LeavesLoop(stream[i])

\* body() returns when the stream still holds a request with more_body false.
BodyReturnsWhenFinalRequestComes ==
    (rbody.pc = "reading" /\ HasFinalRequest(rbody.stream)) ~> (rbody.pc = "returned")

\* body() never returns once the client is gone without a final request.
ReadsForeverAfterDisconnect ==
    [][(rbody.pc = "reading" /\ ~HasFinalRequest(rbody.stream)) => rbody'.pc = "reading"]_vars

SecondCallReturnedCached ==
    rbody.calls = 2 /\ rbody.pc = "returned" /\ rbody.receive_calls >= 2

====
